---- MODULE Spec2Model ----
(***************************************************************************)
(* State-machine model of the precompute job orchestrator                  *)
(* (src/src/services/PrecomputeManager.ts) and of the single-query         *)
(* pipeline it drives (PrecomputeService in                                *)
(* src/src/components/PrecomputePanel.tsx).                                *)
(*                                                                         *)
(* JavaScript runs one macrotask at a time: an action of this model is one *)
(* macrotask (a call of the public API, the arrival of a network response, *)
(* the expiry of a timer) together with every continuation that runs       *)
(* before control goes back to the event loop.                             *)
(*                                                                         *)
(* Strings are sequences of one-character strings, so that split and       *)
(* includes are computed as the code computes them.                        *)
(***************************************************************************)
EXTENDS Integers, Sequences, FiniteSets, TLC

\* ---------------------------------------------------------------- bounds
\* the orchestration scope: several jobs, several executeJob calls
MaxJobs == 2
MaxExecs == 3
JobQueries == 1
\* the retry scope: one execution of one job
RetryJobs == 1
RetryExecs == 1
MaxQueries == 2
MaxBatch == 2
\* the re-execution scope: one job executed several times
RerunExecs == 2
\* the scenario scope: one execution of a job of ScenarioSize distinct queries
\* in chunks of ScenarioBatch, with at most ScenarioFaults rejected calls
ScenarioSize == 7
ScenarioBatch == 3
ScenarioFaults == 1
\* all
MaxRetriesBound == 2
MaxTime == 1
ServiceCalls == 2
TtlHours == 1
HorizonHours == 1
StepsPerHour == 2
DedupeJobs == 2
DedupeExecs == 2
SpellingLen == 2
ExplainCalls == 2
PanelJobs == 2
PanelExecs == 2

\* ---------------------------------------------------------------- strings
Quote == "\""

QueryPrefix == <<"Q", "u", "e", "r", "y", " ", Quote>>

ReasonText ==
  <<"E", "r", "r", "o", "r", ":", " ",
    "P", "r", "e", "c", "o", "m", "p", "u", "t", "e", " ",
    "f", "a", "i", "l", "e", "d", ":", " ",
    "N", "e", "t", "w", "o", "r", "k", " ", "E", "r", "r", "o", "r">>

CancelMarker ==
  <<"J", "o", "b", " ", "c", "a", "n", "c", "e", "l", "l", "e", "d", " ",
    "b", "y", " ", "u", "s", "e", "r">>

\* `Query "${query}": ${result.reason}`
ErrorMessage(query) == QueryPrefix \o query \o <<Quote, ":", " ">> \o ReasonText

\* An entry of job.errors is held as what determines its text: the entry
\* pushed at line 104 for a query, or the marker pushed at line 311.
QueryError(query) == [kind |-> "query", query |-> query]

Cancelled == [kind |-> "cancelled", query |-> <<>>]

\* the string that the entry is
Text(e) == IF e.kind = "query" THEN ErrorMessage(e.query) ELSE CancelMarker

\* F(x), with x evaluated once
Once(x, F(_)) == CHOOSE y \in {F(v) : v \in {x}} : TRUE

\* String.prototype.split('"'): the segments between the separators
SplitQuote(s0) ==
  Once(s0, LAMBDA s :
    LET at == {i \in 1..Len(s) : s[i] = Quote}
        \* the separator that ends segment k, and the one that precedes it
        end(k) == IF k > Cardinality(at) THEN Len(s) + 1
                  ELSE CHOOSE i \in at : Cardinality({h \in at : h < i}) = k - 1
        start(k) == IF k = 1 THEN 0 ELSE end(k - 1)
    IN [k \in 1..(Cardinality(at) + 1) |-> SubSeq(s, start(k) + 1, end(k) - 1)])

Undefined == <<"undefined">>

\* error.split('"')[1]
SplitSecond(s) ==
  Once(SplitQuote(s), LAMBDA parts : IF Len(parts) >= 2 THEN parts[2] ELSE Undefined)

Truthy(x) == x # Undefined /\ x # <<>>

\* String.prototype.includes
Includes(s0, sub0) ==
  \E s \in {s0}, sub \in {sub0} :
    \E i \in 0..(Len(s) - Len(sub)) : SubSeq(s, i + 1, i + Len(sub)) = sub

LowerChar(c) == IF c = "X" THEN "x" ELSE IF c = "Z" THEN "z" ELSE c

toLowerCase(s) == [i \in 1..Len(s) |-> LowerChar(s[i])]

\* String.prototype.trim: what lies between the first and the last non-blank
trim(s0) ==
  Once(s0, LAMBDA s :
    LET solid == {i \in 1..Len(s) : s[i] # " "} IN
    IF solid = {} THEN <<>>
    ELSE SubSeq(s, CHOOSE i \in solid : \A h \in solid : i <= h,
                   CHOOSE i \in solid : \A h \in solid : i >= h))

\* a key that keeps the letter case of the query
generateQueryHashOfTrimmed(query) == trim(query)

\* sha256 is taken to be injective: the key is the normalised text itself
generateQueryHash(query) == trim(toLowerCase(query))

Min(a, b) == IF a < b THEN a ELSE b

\* ---------------------------------------------------------------- inputs
Max(S) == CHOOSE n \in S : \A k \in S : k <= n

JobIds == 1..Max({MaxJobs, RetryJobs, DedupeJobs, PanelJobs})
RunIds == 1..Max({MaxExecs, RetryExecs, RerunExecs, DedupeExecs, PanelExecs})

\* the query strings the operator may enter
QueryUniverse == { <<"x">>, <<"x", "z">> }

ListsUpTo(n) == UNION { [1..k -> QueryUniverse] : k \in 0..n }

\* the query list of the scenario: distinct one-character queries
Digits == <<"1", "2", "3", "4", "5", "6", "7", "8", "9">>

ScenarioQueries == [i \in 1..ScenarioSize |-> <<Digits[i]>>]

\* query strings that createJob accepts as any other: the empty string and
\* a string with a double quote in it, beside a plain one
QuotedUniverse == { <<>>, <<"x", Quote, "z">>, <<"x">> }

\* two spellings of one question
CaseVariants == { <<"x">>, <<" ", "X">> }

\* the queries passed to the service: two spellings of one question, and
\* another question
ServiceQueries == { <<"x">>, <<" ", "X">>, <<"z">> }

\* line 516: an hour in milliseconds, 60 * 60 * 1000
MsPerHour == 3600000

\* the PrecomputeConfig of the panel, lines 29-36, once a key was entered
PanelConfig == [openaiApiKey |-> TRUE, enableXAI |-> TRUE, cacheExpiry |-> TtlHours]

\* BatchPrecomputeOptions (batchSize >= 1, maxRetries >= 0)
OptionSet ==
  [batchSize : 1..MaxBatch, retryFailedQueries : BOOLEAN, maxRetries : 0..MaxRetriesBound]

\* ---------------------------------------------------------------- state
VARIABLES
  jobs,          \* the PrecomputeJob objects, by id (allocated or not)
  table,         \* the ids in PrecomputeManager.jobs (the Map)
  nJobs,         \* number of jobs created so far
  isProcessing,  \* PrecomputeManager.isProcessing
  runs,          \* the executeJob activations, by order of admission
  nRuns,         \* number of executeJob calls admitted so far
  cache,         \* PrecomputeService.cache: queryHash -> PrecomputedResponse
  options,       \* the BatchPrecomputeOptions passed to executeJob
  now,           \* Date.now()
  scope,         \* which inputs are explored: "jobs", "retry", "rerun" or "scenario"
  callerList,    \* the arrays that were passed to createJob, as their callers hold them
  storage,       \* localStorage[CACHE_KEY]: the durable copy of the cache
  requests,      \* the precomputeResponse calls made directly on the service
  config,        \* the PrecomputeConfig of the service
  hookCache      \* PrecomputeService.cache of the manager that usePrecompute creates

vars == <<jobs, table, nJobs, isProcessing, runs, nRuns, cache, options, now, scope,
         callerList, storage, requests, config, hookCache>>

JobLimit ==
  CASE scope = "jobs" -> MaxJobs
    [] scope = "retry" -> RetryJobs
    [] scope = "dedupe" -> DedupeJobs
    [] scope = "panel" -> PanelJobs
    [] OTHER -> 1

ExecLimit ==
  CASE scope = "jobs" -> MaxExecs
    [] scope = "retry" -> RetryExecs
    [] scope = "rerun" -> RerunExecs
    [] scope = "dedupe" -> DedupeExecs
    [] scope = "panel" -> PanelExecs
    [] OTHER -> 1

QueryLists ==
  CASE scope = "jobs" -> ListsUpTo(JobQueries)
    [] scope = "scenario" -> {ScenarioQueries}
    [] scope = "rerun" /\ options.retryFailedQueries -> ListsUpTo(JobQueries)
    [] scope = "dedupe" -> [1..1 -> CaseVariants]
    [] scope = "panel" -> ListsUpTo(MaxQueries) \ {<<>>}
    [] scope = "strings" -> UNION { [1..k -> QuotedUniverse] : k \in 0..MaxQueries }
    [] OTHER -> ListsUpTo(MaxQueries)

NoTime == -1

\* PrecomputeJob; progress is the exact fraction <<numerator, denominator>>
NoJob ==
  [queries |-> <<>>, status |-> "none", progress |-> <<0, 1>>, startTime |-> NoTime,
   endTime |-> NoTime, results |-> <<>>, errors |-> <<>>]

\* one activation of executeJob: where it is suspended and its locals
NoRun ==
  [pc |-> "idle", job |-> 0, batchIndex |-> 0, processedCount |-> 0, calls |-> <<>>,
   failedQueries |-> <<>>, attempt |-> 0, idx |-> 0, remainingFailures |-> <<>>,
   chunkRejected |-> {}, rounds |-> <<>>, cancelled |-> FALSE, loopEnd |-> <<>>]

Terminal == {"completed", "failed"}

\* the part of the state that executeJob's continuations read and write
\* saved: saveCache() was called in the step
Machine ==
  [jobs |-> jobs, isProcessing |-> isProcessing, runs |-> runs, cache |-> cache,
   saved |-> FALSE]

\* saveCache(), lines 531-538, when localStorage.setItem succeeds: the slot
\* holds the values of the Map
SaveCache(c) == [kind |-> "array", items |-> {c[k] : k \in DOMAIN c}]

\* saveCache(), lines 531-538: what the slot may hold afterwards; setItem
\* may throw (quota, storage disabled), which line 535 catches
SaveOutcomes(c) ==
  {SaveCache(c)} \cup (IF scope \in {"service", "dedupe"} THEN {storage} ELSE {})

Commit(m0) ==
  \E m \in {m0} :
    /\ jobs' = m.jobs
    /\ isProcessing' = m.isProcessing
    /\ runs' = m.runs
    /\ cache' = m.cache
    /\ storage' \in (IF m.saved THEN SaveOutcomes(m.cache) ELSE {storage})

\* ---------------------------------------------------------------- PrecomputeService
PrecomputedResponse(query) ==
  [queryHash |-> generateQueryHash(query), originalQuery |-> query]

\* a lookup by the query as it was typed
IsCachedExact(c, query) == query \in DOMAIN c

\* getCachedResponse(query) !== null
IsCached(c, query) == generateQueryHash(query) \in DOMAIN c

getCachedResponse(c, query) == c[generateQueryHash(query)]

\* a cache in which the first entry of a key stays
CacheSetKeepsFirst(c, response) ==
  [k \in DOMAIN c \cup {response.queryHash} |->
     IF k \in DOMAIN c THEN c[k] ELSE response]

\* this.cache.set(queryHash, response)
CacheSet(c, response) ==
  [k \in DOMAIN c \cup {response.queryHash} |->
     IF k = response.queryHash THEN response ELSE c[k]]

\* ---------------------------------------------------------------- executeJob
\* createBatches(array, batchSize): slices [i, i + batchSize) for i = 0, batchSize, ...
RECURSIVE createBatchesFrom(_, _, _)
createBatchesFrom(array, batchSize, i) ==
  IF i >= Len(array) THEN <<>>
  ELSE <<SubSeq(array, i + 1, Min(i + batchSize, Len(array)))>>
         \o createBatchesFrom(array, batchSize, i + batchSize)

\* a createBatches that keeps only the full slices
createBatchesFull(array, batchSize) ==
  createBatchesFrom(SubSeq(array, 1, Len(array) - (Len(array) % batchSize)), batchSize, 0)

createBatches(array, batchSize) == createBatchesFrom(array, batchSize, 0)

BatchesOf(m, r) == createBatches(m.jobs[m.runs[r].job].queries, options.batchSize)

CurrentBatch(m, r) == BatchesOf(m, r)[m.runs[r].batchIndex + 1]

\* an end of executeJob that forgets the finally block of lines 126-128
FinishKeepsLock(m0, r) ==
  Once(m0, LAMBDA m :
    LET j == m.runs[r].job IN
    [m EXCEPT !.jobs[j].status = "completed",
              !.jobs[j].endTime = now,
              !.runs[r] = [NoRun EXCEPT !.pc = "done", !.job = j,
                             !.failedQueries = m.runs[r].failedQueries,
                             !.chunkRejected = m.runs[r].chunkRejected,
                             !.rounds = m.runs[r].rounds,
                             !.cancelled = m.runs[r].cancelled,
                             !.loopEnd = m.runs[r].loopEnd]])

\* lines 119-120 and 127: the normal end of executeJob. Of the activation only
\* its record of what happened is kept.
Finish(m0, r) ==
  Once(m0, LAMBDA m :
    LET j == m.runs[r].job IN
    [m EXCEPT !.jobs[j].status = "completed",
              !.jobs[j].endTime = now,
              !.isProcessing = FALSE,
              !.runs[r] = [NoRun EXCEPT !.pc = "done", !.job = j,
                             !.failedQueries = m.runs[r].failedQueries,
                             !.chunkRejected = m.runs[r].chunkRejected,
                             !.rounds = m.runs[r].rounds,
                             !.cancelled = m.runs[r].cancelled,
                             !.loopEnd = m.runs[r].loopEnd]])

\* job.errors = job.errors.filter(error => !error.includes(query))
RemoveErrors(errors, query) == SelectSeq(errors, LAMBDA e : ~Includes(Text(e), query))

\* lines 268-271: a retry succeeded
RetrySucceeded(m0, r, response) ==
  Once(m0, LAMBDA m :
    LET j == m.runs[r].job
        query == m.runs[r].failedQueries[m.runs[r].idx]
        a == m.runs[r].attempt
    IN [m EXCEPT !.jobs[j].results = Append(@, response),
                 !.jobs[j].errors = RemoveErrors(@, query),
                 !.runs[r].rounds[a] = Append(@, "fulfilled"),
                 !.runs[r].pc = "retryDelay"])

\* lines 272-274: a retry failed
RetryFailed(m0, r) ==
  Once(m0, LAMBDA m :
    LET query == m.runs[r].failedQueries[m.runs[r].idx]
        a == m.runs[r].attempt
    IN [m EXCEPT !.runs[r].remainingFailures = Append(@, query),
                 !.runs[r].rounds[a] = Append(@, "rejected"),
                 !.runs[r].pc = "retryDelay"])

\* lines 262-264: the next retry is issued; a cache hit is answered without a
\* request, and the loop runs on to the delay of line 277
RetryDispatch(m0, r) ==
  Once(m0, LAMBDA m :
    LET query == m.runs[r].failedQueries[m.runs[r].idx] IN
    IF IsCached(m.cache, query)
    THEN RetrySucceeded(m, r, getCachedResponse(m.cache, query))
    ELSE [m EXCEPT !.runs[r].pc = "retry"])

\* lines 259-262: a round begins
RoundStart(m0, r, attempt) ==
  Once(m0, LAMBDA m :
    IF attempt > options.maxRetries THEN Finish(m, r)
    ELSE RetryDispatch(
           [m EXCEPT !.runs[r].attempt = attempt,
                     !.runs[r].idx = 1,
                     !.runs[r].remainingFailures = <<>>,
                     !.runs[r].rounds = Append(@, <<>>)], r))

\* lines 251-253: the queries named by the error messages
FailedQueriesOf(errors) ==
  SelectSeq([i \in 1..Len(errors) |-> SplitSecond(Text(errors[i]))], Truthy)

\* lines 250-257
retryFailedQueries(m0, r) ==
  Once(m0, LAMBDA m :
    LET failedQueries == FailedQueriesOf(m.jobs[m.runs[r].job].errors) IN
    IF Len(failedQueries) = 0 THEN Finish(m, r)
    ELSE RoundStart([m EXCEPT !.runs[r].failedQueries = failedQueries], r, 1))

\* lines 114-120: after the chunk loop
AfterLoop(m0, r) ==
  Once(m0, LAMBDA m :
    LET j == m.runs[r].job
        m1 == [m EXCEPT !.runs[r].loopEnd =
                 <<[results |-> Len(m.jobs[j].results), errors |-> Len(m.jobs[j].errors)]>>]
    IN IF options.retryFailedQueries /\ Len(m.jobs[j].errors) > 0
       THEN retryFailedQueries(m1, r)
       ELSE Finish(m1, r))

\* lines 99-106, the fulfilled branch: the values pushed to job.results
FulfilledValues(calls) ==
  Once(SelectSeq(calls, LAMBDA c : c.state = "fulfilled"),
       LAMBDA fulfilled : [k \in 1..Len(fulfilled) |-> fulfilled[k].value])

\* error messages that name the queries in the order of the rejections
\* instead of the positions of the rejected calls
RejectedMessagesInArrivalOrder(calls, batch) ==
  Once(SelectSeq([i \in 1..Len(calls) |-> i], LAMBDA i : calls[i].state = "rejected"),
       LAMBDA rejected : [k \in 1..Len(rejected) |-> QueryError(batch[k])])

\* lines 99-106, the rejected branch: the messages pushed to job.errors
RejectedMessages(calls, batch) ==
  Once(SelectSeq([i \in 1..Len(calls) |-> i], LAMBDA i : calls[i].state = "rejected"),
       LAMBDA rejected : [k \in 1..Len(rejected) |-> QueryError(batch[rejected[k]])])

\* lines 94-111: Promise.allSettled has resolved
ChunkSettled(m0, r) ==
  Once(m0, LAMBDA m :
    LET j == m.runs[r].job
        run == m.runs[r]
        batch == CurrentBatch(m, r)
        processedCount == run.processedCount + Len(batch)
        m1 == [m EXCEPT
                 !.jobs[j].progress = <<processedCount * 100, Len(m.jobs[j].queries)>>,
                 !.jobs[j].results = @ \o FulfilledValues(run.calls),
                 !.jobs[j].errors = @ \o RejectedMessages(run.calls, batch),
                 !.runs[r].processedCount = processedCount,
                 !.runs[r].chunkRejected = @ \cup
                    {run.batchIndex * options.batchSize + i : i \in
                       {k \in 1..Len(batch) : run.calls[k].state = "rejected"}},
                 !.runs[r].calls = <<>>]
    IN IF run.batchIndex < Len(BatchesOf(m, r)) - 1
       THEN [m1 EXCEPT !.runs[r].pc = "delay"]
       ELSE AfterLoop(m1, r))

NoResponse == [queryHash |-> <<>>, originalQuery |-> <<>>]

\* lines 87-92: every query of the chunk is handed to processQuery; cached
\* queries are answered at once, the others are requested upstream
StartChunk(m0, r) ==
  Once(m0, LAMBDA m :
    LET batch == CurrentBatch(m, r)
        calls == [i \in 1..Len(batch) |->
                    IF IsCached(m.cache, batch[i])
                    THEN [state |-> "fulfilled", value |-> getCachedResponse(m.cache, batch[i])]
                    ELSE [state |-> "pending", value |-> NoResponse]]
        m1 == [m EXCEPT !.runs[r].calls = calls, !.runs[r].pc = "chunk"]
    IN IF \E i \in 1..Len(calls) : calls[i].state = "pending"
       THEN m1
       ELSE ChunkSettled(m1, r))

\* lines 75-83: an admitted executeJob up to its first suspension
Admit(m0, r, j) ==
  Once(m0, LAMBDA m :
    LET m1 == [m EXCEPT !.isProcessing = TRUE,
                        !.jobs[j].status = "running",
                        !.jobs[j].startTime = now,
                        !.runs[r] = [NoRun EXCEPT !.pc = "chunk", !.job = j]]
    IN IF Len(createBatches(m.jobs[j].queries, options.batchSize)) = 0
       THEN AfterLoop(m1, r)
       ELSE StartChunk(m1, r))

\* PrecomputeService.precomputeResponse, lines 564-598, for call i of the
\* current chunk: the upstream answer arrives (the response is built and
\* cached) or the request fails; processQuery, lines 142-156, passes either on
CallAnswered(m0, r, i, outcome) ==
  Once(m0, LAMBDA m :
    LET response == PrecomputedResponse(CurrentBatch(m, r)[i]) IN
    IF outcome = "fulfilled"
    THEN [m EXCEPT !.cache = CacheSet(@, response),
                   !.saved = TRUE,
                   !.runs[r].calls[i] = [state |-> "fulfilled", value |-> response]]
    ELSE [m EXCEPT !.runs[r].calls[i] = [state |-> "rejected", value |-> NoResponse]])

\* a chunk that goes on as soon as one of its calls has settled
FirstSettledGoesOn(m0, r) == ChunkSettled(m0, r)

\* line 92: Promise.allSettled resolves with the last call of the chunk
AllSettledOrWait(m0, r) ==
  Once(m0, LAMBDA m :
    IF \E k \in 1..Len(m.runs[r].calls) : m.runs[r].calls[k].state = "pending"
    THEN m
    ELSE ChunkSettled(m, r))

CallSettled(m, r, i, outcome) == AllSettledOrWait(CallAnswered(m, r, i, outcome), r)

\* ---------------------------------------------------------------- actions
\* localStorage.getItem(CACHE_KEY) === null
NoStorage == [kind |-> "absent", items |-> {}]

InitManager ==
  /\ jobs = [j \in JobIds |-> NoJob]
  /\ table = {}
  /\ nJobs = 0
  /\ isProcessing = FALSE
  /\ runs = [r \in RunIds |-> NoRun]
  /\ nRuns = 0
  /\ cache = [k \in {} |-> NoResponse]
  /\ now = 0
  /\ callerList = [j \in JobIds |-> <<>>]
  /\ storage = NoStorage
  /\ requests = <<>>
  /\ hookCache = [k \in {} |-> NoResponse]

\* the orchestration scope: several jobs and executions, short query lists,
\* no retry pass
InitJobs ==
  /\ InitManager
  /\ scope = "jobs"
  /\ config = PanelConfig
  /\ options = [batchSize |-> 1, retryFailedQueries |-> FALSE, maxRetries |-> 0]

\* the retry scope: one execution of one job, every setting of the options,
\* longer query lists
InitRetry ==
  /\ InitManager
  /\ scope = "retry"
  /\ config = PanelConfig
  /\ options \in OptionSet

\* the re-execution scope: one job, executed again after it has run, with
\* every batch size and no retry pass, or (on the short query lists) with a
\* retry pass of one round
InitRerun ==
  /\ InitManager
  /\ scope = "rerun"
  /\ config = PanelConfig
  /\ options \in {o \in OptionSet :
                     IF o.retryFailedQueries THEN o.maxRetries = 1 /\ o.batchSize = 1
                     ELSE o.maxRetries = 0}

\* the scenario scope: one execution of the scenario's job, one retry round
InitScenario ==
  /\ InitManager
  /\ scope = "scenario"
  /\ config = PanelConfig
  /\ options = [batchSize |-> ScenarioBatch, retryFailedQueries |-> TRUE, maxRetries |-> 1]

\* what new PrecomputeService(config) finds and loads: an empty slot, or the
\* entry of an earlier session, which loadCache() reads unless getItem or
\* JSON.parse throws (caught at line 523)
InitCache(stored, loadFails) ==
  /\ storage = IF stored = {} THEN NoStorage ELSE [kind |-> "array", items |-> stored]
  /\ cache = IF loadFails THEN [k \in {} |-> NoResponse]
             ELSE [k \in {e.queryHash : e \in stored} |->
                     CHOOSE e \in stored : e.queryHash = k]

\* the case scope: two jobs of one query each, spelled in lower case or in
\* upper case after a blank; the durable store may hold an entry of an
\* earlier session, may fail to be read and may refuse a write
InitDedupe ==
  /\ jobs = [j \in JobIds |-> NoJob]
  /\ table = {}
  /\ nJobs = 0
  /\ isProcessing = FALSE
  /\ runs = [r \in RunIds |-> NoRun]
  /\ nRuns = 0
  /\ now = 0
  /\ callerList = [j \in JobIds |-> <<>>]
  /\ requests = <<>>
  /\ hookCache = [k \in {} |-> NoResponse]
  /\ \E stored \in {{}, {PrecomputedResponse(<<"x">>)}}, loadFails \in BOOLEAN :
       InitCache(stored, loadFails)
  /\ scope = "dedupe"
  /\ config = PanelConfig
  /\ options = [batchSize |-> 1, retryFailedQueries |-> FALSE, maxRetries |-> 0]

\* the service scope: precomputeResponse is called directly on a
\* PrecomputeService, with or without a credential, while time passes, the
\* page is loaded again and the cache is cleared
InitService ==
  /\ InitManager
  /\ scope = "service"
  /\ config \in [openaiApiKey : BOOLEAN, enableXAI : BOOLEAN, cacheExpiry : {TtlHours}]
  /\ options = [batchSize |-> 1, retryFailedQueries |-> FALSE, maxRetries |-> 0]

\* time passes
Tick ==
  /\ now < MaxTime
  /\ now' = now + 1
  /\ UNCHANGED <<jobs, table, nJobs, isProcessing, runs, nRuns, cache, options, scope, callerList, storage, requests, config, hookCache>>

\* job.queries is the array of the caller itself
SharesCallerListAlways == TRUE

\* line 41: job.queries is a new array with the elements of the argument,
\* [...queries], and not the array of the caller
SharesCallerList == FALSE

\* createJob(queries), lines 38-51
CreateJob(queries) ==
  /\ nJobs < JobLimit
  /\ callerList' = [callerList EXCEPT ![nJobs + 1] = queries]
  /\ jobs' = [jobs EXCEPT ![nJobs + 1] =
                [queries |-> queries, status |-> "pending", progress |-> <<0, 1>>,
                 startTime |-> now, endTime |-> NoTime, results |-> <<>>, errors |-> <<>>]]
  /\ table' = table \cup {nJobs + 1}
  /\ nJobs' = nJobs + 1
  /\ UNCHANGED <<isProcessing, runs, nRuns, cache, options, now, scope, storage, requests, config, hookCache>>

\* exportJobResults(jobId), lines 367-370: what the call does first
exportJobResultsOutcome(j) ==
  IF j \notin table THEN "notFound" ELSE "exported"

\* a document that counts the queries by their outcomes
exportDataCountsOutcomes(j) ==
  [job |-> [id |-> j, status |-> jobs[j].status, progress |-> jobs[j].progress,
            startTime |-> jobs[j].startTime, endTime |-> jobs[j].endTime,
            totalQueries |-> Len(jobs[j].results) + Len(jobs[j].errors),
            successfulResults |-> Len(jobs[j].results),
            errors |-> Len(jobs[j].errors)],
   results |-> jobs[j].results,
   errors |-> jobs[j].errors,
   exportTimestamp |-> now]

\* exportJobResults(jobId), lines 372-386: the document that is serialised
exportData(j) ==
  [job |-> [id |-> j, status |-> jobs[j].status, progress |-> jobs[j].progress,
            startTime |-> jobs[j].startTime, endTime |-> jobs[j].endTime,
            totalQueries |-> Len(jobs[j].queries),
            successfulResults |-> Len(jobs[j].results),
            errors |-> Len(jobs[j].errors)],
   results |-> jobs[j].results,
   errors |-> jobs[j].errors,
   exportTimestamp |-> now]

\* exportJobResults(jobId), lines 368-370: unknown id, Error(`Job ${jobId} not found`)
ExportJobResultsNotFound(j) ==
  /\ exportJobResultsOutcome(j) = "notFound"
  /\ UNCHANGED vars

\* exportJobResults(jobId), lines 372-398: the job is serialised and handed
\* to the browser as a download; the manager is only read
ExportJobResultsDownload(j) ==
  /\ exportJobResultsOutcome(j) = "exported"
  /\ UNCHANGED vars

ExportJobResults(j) == ExportJobResultsNotFound(j) \/ ExportJobResultsDownload(j)

\* the caller of createJob changes the array it passed for job j: it empties
\* it, or pushes a query when it was empty; job.queries follows only if it
\* is that same array
CallerMutates(j) ==
  /\ scope = "retry"
  /\ j <= nJobs
  /\ callerList[j] = jobs[j].queries
  /\ callerList' = [callerList EXCEPT ![j] = IF callerList[j] = <<>> THEN <<"x">> ELSE <<>>]
  /\ jobs' = IF SharesCallerList
             THEN [jobs EXCEPT ![j].queries = callerList'[j]]
             ELSE jobs
  /\ UNCHANGED <<table, nJobs, isProcessing, runs, nRuns, cache, options, now, scope, storage, requests, config, hookCache>>

\* a panel that starts the job it has created whatever the lock says
HandleCreateJobIgnoresLock(queries) ==
  /\ scope = "panel"
  /\ nJobs < JobLimit
  /\ nRuns < ExecLimit
  /\ Commit(Admit([Machine EXCEPT !.jobs[nJobs + 1] =
                     [queries |-> queries, status |-> "pending", progress |-> <<0, 1>>,
                      startTime |-> now, endTime |-> NoTime, results |-> <<>>,
                      errors |-> <<>>]],
                  nRuns + 1, nJobs + 1))
  /\ nRuns' = nRuns + 1
  /\ callerList' = [callerList EXCEPT ![nJobs + 1] = queries]
  /\ table' = table \cup {nJobs + 1}
  /\ nJobs' = nJobs + 1
  /\ UNCHANGED <<options, now, scope, requests, config, hookCache>>

\* PrecomputePanel.handleCreateJob, lines 74-90 of PrecomputePanel.tsx, for
\* the non-empty list of the lines that were entered: createJob, then
\* handleExecuteJob, lines 92-101, which calls executeJob for the new job
\* and catches the conflict error
HandleCreateJob(queries) ==
  /\ scope = "panel"
  /\ nJobs < JobLimit
  /\ nRuns < ExecLimit
  /\ \E created \in {[Machine EXCEPT !.jobs[nJobs + 1] =
                         [queries |-> queries, status |-> "pending", progress |-> <<0, 1>>,
                          startTime |-> now, endTime |-> NoTime, results |-> <<>>,
                          errors |-> <<>>]]} :
       Commit(IF isProcessing THEN created ELSE Admit(created, nRuns + 1, nJobs + 1))
  /\ nRuns' = IF isProcessing THEN nRuns ELSE nRuns + 1
  /\ callerList' = [callerList EXCEPT ![nJobs + 1] = queries]
  /\ table' = table \cup {nJobs + 1}
  /\ nJobs' = nJobs + 1
  /\ UNCHANGED <<options, now, scope, requests, config, hookCache>>

\* the two tests of executeJob in the other order: the lock first
executeJobOutcomeLockFirst(j) ==
  IF isProcessing THEN "conflict"
  ELSE IF j \notin table THEN "notFound"
  ELSE "admitted"

\* executeJob(jobId), lines 66-75: what the call does first
executeJobOutcome(j) ==
  IF j \notin table THEN "notFound"
  ELSE IF isProcessing THEN "conflict"
  ELSE "admitted"

\* executeJob(jobId), lines 67-69: unknown id, Error(`Job ${jobId} not found`)
ExecuteJobNotFound(j) ==
  /\ executeJobOutcome(j) = "notFound"
  /\ UNCHANGED vars

\* executeJob(jobId), lines 71-73: Error('Another job is currently processing')
ExecuteJobConflict(j) ==
  /\ executeJobOutcome(j) = "conflict"
  /\ UNCHANGED vars

\* executeJob(jobId), lines 75-92: admitted
ExecuteJobAdmitted(j) ==
  /\ executeJobOutcome(j) = "admitted"
  /\ nRuns < ExecLimit
  /\ Commit(Admit(Machine, nRuns + 1, j))
  /\ nRuns' = nRuns + 1
  /\ UNCHANGED <<table, nJobs, options, now, scope, callerList, requests, config, hookCache>>

ExecuteJob(j) ==
  \/ ExecuteJobNotFound(j)
  \/ ExecuteJobConflict(j)
  \/ ExecuteJobAdmitted(j)

\* cancelJob that does not look at the status of the job
cancelJobReturnsForAnyStatus(j) == j \in table

\* cancelJob(jobId), lines 306-316: the value returned
cancelJobReturns(j) == j \in table /\ jobs[j].status = "running"

\* cancelJob that forgets line 312 and keeps the lock
CancelJobKeepsLock(j) ==
  /\ cancelJobReturns(j)
  /\ jobs' = [jobs EXCEPT ![j].status = "failed",
                          ![j].endTime = now,
                          ![j].errors = Append(@, Cancelled)]
  /\ runs' = [r \in RunIds |->
                IF runs[r].job = j /\ runs[r].pc \notin {"idle", "done"}
                THEN [runs[r] EXCEPT !.cancelled = TRUE] ELSE runs[r]]
  /\ UNCHANGED <<isProcessing, table, nJobs, nRuns, cache, options, now, scope, callerList, storage, requests, config, hookCache>>

\* cancelJob(jobId), lines 308-314
CancelJobRunning(j) ==
  /\ cancelJobReturns(j)
  /\ jobs' = [jobs EXCEPT ![j].status = "failed",
                          ![j].endTime = now,
                          ![j].errors = Append(@, Cancelled)]
  /\ isProcessing' = FALSE
  /\ runs' = [r \in RunIds |->
                IF runs[r].job = j /\ runs[r].pc \notin {"idle", "done"}
                THEN [runs[r] EXCEPT !.cancelled = TRUE] ELSE runs[r]]
  /\ UNCHANGED <<table, nJobs, nRuns, cache, options, now, scope, callerList, storage, requests, config, hookCache>>

\* cancelJob(jobId), line 315
CancelJobNotRunning(j) ==
  /\ ~cancelJobReturns(j)
  /\ UNCHANGED vars

CancelJob(j) == CancelJobRunning(j) \/ CancelJobNotRunning(j)

\* deleteJob(jobId), lines 321-323: the value returned by Map.delete
deleteJobReturns(j) == j \in table

\* getJob(jobId), lines 292-294; NoJob stands for undefined
getJob(j) == IF j \in table THEN jobs[j] ELSE NoJob

\* getAllJobs(), lines 299-301: the jobs of the table in the order of their
\* creation, each named by its id
getAllJobs == SelectSeq([i \in 1..Max(JobIds) |-> i], LAMBDA i : i \in table)

\* Array.prototype.reduce((sum, x) => sum + x, 0) over a sequence of numbers
RECURSIVE SumTo(_, _)
SumTo(seq, n) == IF n = 0 THEN 0 ELSE SumTo(seq, n - 1) + seq[n]

Sum(seq0) == Once(seq0, LAMBDA seq : SumTo(seq, Len(seq)))

\* Array.from(this.jobs.values()), line 337, when the Map holds the ids of
\* the set ids: the jobs in the order of their creation
ValuesOf(ids) == SelectSeq([i \in 1..Max(JobIds) |-> i], LAMBDA i : i \in ids)

\* getStatistics(), lines 337-360, over the array arr of jobs;
\* averageProcessingTime is the exact fraction <<sum, count>>
Rollup(arr0) ==
  Once(arr0, LAMBDA arr :
    LET completedJobs == SelectSeq(arr, LAMBDA j : jobs[j].status = "completed")
        failedJobs == SelectSeq(arr, LAMBDA j : jobs[j].status = "failed")
        ended == SelectSeq(arr, LAMBDA j : jobs[j].endTime # NoTime)
    IN Once([k \in 1..Len(ended) |-> jobs[ended[k]].endTime - jobs[ended[k]].startTime],
            LAMBDA processingTimes :
              [totalJobs |-> Len(arr),
               completedJobs |-> Len(completedJobs),
               failedJobs |-> Len(failedJobs),
               totalQueries |-> Sum([k \in 1..Len(arr) |-> Len(jobs[arr[k]].queries)]),
               successfulQueries |-> Sum([k \in 1..Len(arr) |-> Len(jobs[arr[k]].results)]),
               averageProcessingTime |->
                 IF Len(processingTimes) > 0
                 THEN <<Sum(processingTimes), Len(processingTimes)>>
                 ELSE <<0, 1>>,
               cacheStats |-> [totalEntries |-> Cardinality(DOMAIN cache)]]))

\* statistics that also count the jobs that were deleted
StatisticsOfCreated(ids) == Rollup(ValuesOf(1..nJobs))

\* getStatistics(), lines 328-361, when the Map holds the ids of the set ids
StatisticsOf(ids) == Rollup(ValuesOf(ids))

getStatistics == StatisticsOf(table)

\* getStatistics(), lines 328-361, is called: the manager is only read
GetStatistics == UNCHANGED vars

\* deleteJob that also gives up the lock when the job is running
DeleteJobStopsRunning(j) ==
  /\ table' = table \ {j}
  /\ isProcessing' = IF deleteJobReturns(j) /\ jobs[j].status = "running"
                     THEN FALSE ELSE isProcessing
  /\ UNCHANGED <<jobs, nJobs, runs, nRuns, cache, options, now, scope, callerList, storage, requests, config, hookCache>>

\* deleteJob(jobId), lines 321-323
DeleteJob(j) ==
  /\ table' = table \ {j}
  /\ UNCHANGED <<jobs, nJobs, isProcessing, runs, nRuns, cache, options, now, scope, callerList, storage, requests, config, hookCache>>

\* the calls of activation r that were rejected so far
Faults(r) ==
  Cardinality(runs[r].chunkRejected)
    + Cardinality({i \in 1..Len(runs[r].calls) : runs[r].calls[i].state = "rejected"})
    + Cardinality({<<a, i>> \in (1..Len(runs[r].rounds)) \X (1..Len(runs[r].failedQueries)) :
                     i <= Len(runs[r].rounds[a]) /\ runs[r].rounds[a][i] = "rejected"})

\* the outcomes the upstream service may give to a request of activation r
MayAnswer(r, outcome) ==
  outcome = "rejected" /\ scope = "scenario" => Faults(r) < ScenarioFaults

\* a precomputeResponse in which a failed write of the durable store fails
\* the call, after the cache was set
CallSettlesUnlessSaveFails(r, i, outcome) ==
  /\ runs[r].pc = "chunk"
  /\ MayAnswer(r, outcome)
  /\ i \in 1..Len(runs[r].calls)
  /\ runs[r].calls[i].state = "pending"
  /\ \/ /\ Commit(CallSettled(Machine, r, i, outcome))
        /\ outcome = "fulfilled" => storage' = SaveCache(cache')
     \/ /\ outcome = "fulfilled"
        /\ scope = "dedupe"
        /\ \E m \in {CallSettled(
                        [Machine EXCEPT !.cache =
                           CacheSet(@, PrecomputedResponse(CurrentBatch(Machine, r)[i]))],
                        r, i, "rejected")} :
             /\ jobs' = m.jobs
             /\ isProcessing' = m.isProcessing
             /\ runs' = m.runs
             /\ cache' = m.cache
        /\ storage' = storage
  /\ UNCHANGED <<table, nJobs, nRuns, options, now, scope, callerList, requests, config, hookCache>>

\* the upstream request of call i of the current chunk is answered
\* (PrecomputeService.precomputeResponse, lines 564-598), and, when it was
\* the last one outstanding, Promise.allSettled resolves
CallSettles(r, i, outcome) ==
  /\ runs[r].pc = "chunk"
  /\ MayAnswer(r, outcome)
  /\ i \in 1..Len(runs[r].calls)
  /\ runs[r].calls[i].state = "pending"
  /\ Commit(CallSettled(Machine, r, i, outcome))
  /\ UNCHANGED <<table, nJobs, nRuns, options, now, scope, callerList, requests, config, hookCache>>

\* line 110: the delay between two chunks has elapsed
DelayElapsed(r) ==
  /\ runs[r].pc = "delay"
  /\ Commit(StartChunk([Machine EXCEPT !.runs[r].batchIndex = @ + 1], r))
  /\ UNCHANGED <<table, nJobs, nRuns, options, now, scope, callerList, requests, config, hookCache>>

\* line 264: the upstream request of a retry is answered
RetrySettles(r, outcome) ==
  /\ runs[r].pc = "retry"
  /\ MayAnswer(r, outcome)
  /\ LET response == PrecomputedResponse(runs[r].failedQueries[runs[r].idx])
     IN Commit(IF outcome = "fulfilled"
               THEN RetrySucceeded([Machine EXCEPT !.cache = CacheSet(@, response),
                                             !.saved = TRUE],
                                   r, response)
               ELSE RetryFailed(Machine, r))
  /\ UNCHANGED <<table, nJobs, nRuns, options, now, scope, callerList, requests, config, hookCache>>

\* line 277: the delay after a retry has elapsed; lines 280-285 at the end of
\* a round
RetryDelayElapsed(r) ==
  /\ runs[r].pc = "retryDelay"
  /\ Commit(IF runs[r].idx < Len(runs[r].failedQueries)
            THEN RetryDispatch([Machine EXCEPT !.runs[r].idx = @ + 1], r)
            ELSE IF Len(runs[r].remainingFailures) = 0
            THEN Finish(Machine, r)
            ELSE IF runs[r].attempt < options.maxRetries
            THEN [Machine EXCEPT !.runs[r].pc = "backoff"]
            ELSE RoundStart(Machine, r, runs[r].attempt + 1))
  /\ UNCHANGED <<table, nJobs, nRuns, options, now, scope, callerList, requests, config, hookCache>>

\* line 284: the backoff before the next round has elapsed
BackoffElapsed(r) ==
  /\ runs[r].pc = "backoff"
  /\ Commit(RoundStart(Machine, r, runs[r].attempt + 1))
  /\ UNCHANGED <<table, nJobs, nRuns, options, now, scope, callerList, requests, config, hookCache>>

\* ---------------------------------------------------------------- service calls
\* the text of an upstream answer
Answer == <<"a">>

NoEntry == [queryHash |-> <<>>, originalQuery |-> <<>>, openaiResponse |-> <<>>, timestamp |-> NoTime]

\* lines 574-588: the response built from the answer text at time t
ServiceResponse(query, text, t) ==
  [queryHash |-> generateQueryHash(query), originalQuery |-> query,
   openaiResponse |-> text, timestamp |-> t]

\* what the completion API may answer: a message with content, a choice
\* without message content (or no choice at all in the array), a body
\* without the choices array, or a failed request
UpstreamOutcomes == {"content", "noContent", "noChoices", "rejected"}

\* getOpenAIResponse, line 630: response.data.choices[0]?.message?.content || ''
getOpenAIResponse(outcome) == IF outcome = "content" THEN Answer ELSE <<>>

\* lines 564-571: the request fails, line 630 reads [0] of undefined, or the
\* awaited generateXAIExplanation throws
PrecomputeThrows(outcome, synthesisThrows) ==
  \/ outcome \in {"noChoices", "rejected"}
  \/ config.enableXAI /\ synthesisThrows

\* line 516: cacheExpiry hours in milliseconds
maxAge == config.cacheExpiry * MsPerHour

\* loadCache(), lines 510-522: the entries of the slot whose age at time t
\* is below maxAge
loadCache(t) ==
  LET fresh == {e \in storage.items : t - e.timestamp < maxAge}
  IN [k \in {e.queryHash : e \in fresh} |-> CHOOSE e \in fresh : e.queryHash = k]

\* precomputeResponse(query), lines 551-564: a hit returns the cached
\* response, a miss sends the request to the completion API
PrecomputeResponseCalled(query) ==
  /\ scope = "service"
  /\ Len(requests) < ServiceCalls
  /\ requests' = Append(requests,
                    IF IsCached(cache, query)
                    THEN [query |-> query, state |-> "returned", upstream |-> FALSE,
                          value |-> getCachedResponse(cache, query)]
                    ELSE [query |-> query, state |-> "pending", upstream |-> TRUE,
                          value |-> NoEntry])
  /\ UNCHANGED <<jobs, table, nJobs, isProcessing, runs, nRuns, cache, options, now, scope,
                 callerList, storage, config, hookCache>>

\* a precomputeResponse that caches the answer before the explanation is
\* synthesised
PrecomputeResponseCachesEarly(c, outcome, synthesisThrows) ==
  /\ scope = "service"
  /\ c \in 1..Len(requests)
  /\ requests[c].state = "pending"
  /\ LET response == ServiceResponse(requests[c].query, getOpenAIResponse(outcome), now)
     IN IF outcome \in {"noChoices", "rejected"}
        THEN /\ requests' = [requests EXCEPT ![c].state = "threw"]
             /\ UNCHANGED <<cache, storage>>
        ELSE /\ cache' = CacheSet(cache, response)
             /\ storage' \in SaveOutcomes(cache')
             /\ requests' = IF PrecomputeThrows(outcome, synthesisThrows)
                            THEN [requests EXCEPT ![c].state = "threw"]
                            ELSE [requests EXCEPT ![c].state = "returned",
                                                  ![c].value = response]
  /\ UNCHANGED <<jobs, table, nJobs, isProcessing, runs, nRuns, options, now, scope,
                 callerList, config, hookCache>>

\* precomputeResponse(query), lines 564-598: the request of call c is
\* answered; the response is built, cached and saved, or the call throws
PrecomputeResponseSettles(c, outcome, synthesisThrows) ==
  /\ scope = "service"
  /\ c \in 1..Len(requests)
  /\ requests[c].state = "pending"
  /\ IF PrecomputeThrows(outcome, synthesisThrows)
     THEN /\ requests' = [requests EXCEPT ![c].state = "threw"]
          /\ UNCHANGED <<cache, storage>>
     ELSE LET response == ServiceResponse(requests[c].query, getOpenAIResponse(outcome), now)
          IN /\ cache' = CacheSet(cache, response)
             /\ storage' \in SaveOutcomes(cache')
             /\ requests' = [requests EXCEPT ![c].state = "returned", ![c].value = response]
  /\ UNCHANGED <<jobs, table, nJobs, isProcessing, runs, nRuns, options, now, scope,
                 callerList, config, hookCache>>

\* the page is loaded again: new PrecomputeService(config), lines 493-496,
\* runs loadCache(); getItem or JSON.parse may throw, which line 523 catches
Reload(loadFails) ==
  /\ scope = "service"
  /\ cache' = IF loadFails \/ storage.kind # "array"
              THEN [k \in {} |-> NoEntry]
              ELSE loadCache(now)
  /\ requests' = <<>>
  /\ UNCHANGED <<jobs, table, nJobs, isProcessing, runs, nRuns, options, now, scope,
                 callerList, storage, config, hookCache>>

\* clearCache(), lines 1011-1014
ClearCache ==
  /\ scope = "service"
  /\ cache' = [k \in {} |-> NoEntry]
  /\ storage' = NoStorage
  /\ UNCHANGED <<jobs, table, nJobs, isProcessing, runs, nRuns, options, now, scope,
                 callerList, requests, config, hookCache>>

\* time passes, a part of an hour at a time
ClockAdvances ==
  /\ scope \in {"service", "shared"}
  /\ now < HorizonHours * MsPerHour
  /\ now' = now + MsPerHour \div StepsPerHour
  /\ UNCHANGED <<jobs, table, nJobs, isProcessing, runs, nRuns, cache, options, scope,
                 callerList, storage, requests, config, hookCache>>

\* ---------------------------------------------------------------- explanations
\* An explanation is held as what the data model bounds: the number of
\* features with a SHAP value, the concept graph, the confidence and the
\* number of suggested prompts.

\* Math.round(num / den) for num >= 0
Round(num, den) == (2 * num + den) \div (2 * den)

\* extractFeatures, lines 754-777 of PrecomputePanel.tsx: of the terms that
\* occur in the text, features.slice(0, 8)
extractFeatures(termsPresent) == Min(termsPresent, 8)

\* extractConcepts, lines 811-836: one concept per pattern that matches,
\* [...new Set(concepts)].slice(0, 6)
extractConcepts(patternsMatched) == Min(patternsMatched, 6)

\* generateConceptConnections, lines 841-861
generateConceptConnections(concepts) ==
  {<<<<"node", i>>, <<"node", i + 1>>>> : i \in 0..(concepts - 2)}
    \cup (IF concepts > 3 THEN {<<<<"node", 0>>, <<"node", concepts - 1>>>>} ELSE {})

\* generateDAGVisualization, lines 718-730
generateDAGVisualization(patternsMatched) ==
  [nodes |-> {<<"node", i>> : i \in 0..(extractConcepts(patternsMatched) - 1)},
   edges |-> generateConceptConnections(extractConcepts(patternsMatched))]

\* calculateConfidence, lines 887-898, for a response of responseLength
\* characters and a sum of |SHAP value| of shapPercent hundredths; the
\* scores are held in tenths
calculateConfidence(responseLength, shapPercent) ==
  LET lengthScore == Min(responseLength, 500)
      shapScore == Min(shapPercent * 10, 300)
      baseScore == 200
  IN Round(Min(baseScore + lengthScore + shapScore, 950), 10)

\* generateSuggestedPrompts, lines 903-924: the number of prompts
generateSuggestedPrompts(domain, primaryTab) ==
  Min((IF domain = "military" THEN 2 ELSE 0)
        + (IF primaryTab \in {"reasoning", "projection"} THEN 2 ELSE 0)
        + 1, 4)

\* generateXAIExplanation, lines 636-670
generateXAIExplanation(in) ==
  [features |-> extractFeatures(in.termsPresent),
   dag |-> generateDAGVisualization(in.patternsMatched),
   confidence |-> calculateConfidence(in.responseLength, in.shapPercent),
   suggestedPrompts |-> generateSuggestedPrompts(in.domain, in.primaryTab)]

\* createBasicExplanation, lines 970-985: no SHAP values and no graph
createBasicExplanation ==
  [features |-> 0, dag |-> [nodes |-> {}, edges |-> {}], confidence |-> 75,
   suggestedPrompts |-> 4]

\* the features of the model 'threat_assessment_v1', lines 86-95 of
\* unnamed/part_000
ThreatAssessmentFeatures ==
  <<"flight_deviation", "speed_change", "communication_status", "geographic_vector",
    "time_of_day", "weather_conditions", "aircraft_type", "flight_plan_status">>

\* OmniXAIService.calculateExplanationConfidence, lines 322-346 of
\* unnamed/part_000, when lime, shap and integrated_gradients have run: the
\* mean, as the fraction <<sum, count>>, of localFidelity * 100, of
\* min(sum of |SHAP value| * 100, 95) and of max(0, 100 - convergenceDelta * 1000)
calculateExplanationConfidence(limePercent, shapPercent, igPercent) ==
  <<limePercent + Min(shapPercent, 95) + igPercent, 3>>

\* OmniXAIService.convertToXAIExplanation, lines 351-404 of unnamed/part_000:
\* a node for every SHAP value of the model and the node 'prediction'
convertToXAIExplanation(in) ==
  LET shapValues == 1..Len(ThreatAssessmentFeatures)
      confidence == calculateExplanationConfidence(in.limePercent, in.omniShapPercent,
                                                   in.igPercent)
  IN [features |-> Cardinality(shapValues),
      dag |-> [nodes |-> {<<"feature", i - 1>> : i \in shapValues} \cup {<<"prediction", 0>>},
               edges |-> {<<<<"feature", i - 1>>, <<"prediction", 0>>>> : i \in shapValues}],
      confidence |-> Round(confidence[1], confidence[2]),
      suggestedPrompts |-> 4]

\* what the text of a query and of its answer, and Math.random(), decide:
\* how many terms and patterns occur, the domain and the tab, the length of
\* the answer, the sums of |SHAP value| in hundredths, localFidelity in
\* [0.85, 0.95) and convergenceDelta in [0, 0.01)
ExplainInputs ==
  [termsPresent : {0, 19}, patternsMatched : {0, 4, 8},
   domain : {"military", "general"}, primaryTab : {"insight", "reasoning"},
   responseLength : {300, 2000}, shapPercent : {0, 40},
   limePercent : {85, 94}, omniShapPercent : {0, 400}, igPercent : {91, 100}]

\* PrecomputeService.precomputeResponse, lines 568-571: the explanation of
\* a new response
ServiceExplanation(in) ==
  IF config.enableXAI THEN generateXAIExplanation(in) ELSE createBasicExplanation

\* the queries of the explanation scope
ExplainQueries == { <<"x">>, <<"z">> }

\* PrecomputeService.precomputeResponse, lines 574-588: the response, with
\* the explanation that the service has built
ExplainedResponse(query, explanation) ==
  [queryHash |-> generateQueryHash(query), originalQuery |-> query,
   xaiExplanation |-> explanation]

\* PrecomputeManager.processQuery, lines 142-152, with the call of
\* PrecomputeService.precomputeResponse, lines 551-594, that it awaits. A hit
\* returns the object that the Map holds, a miss builds the response, puts
\* it in the Map, saves the Map and returns it. With enableXAI line 149
\* then assigns the explanation of enhanceWithOmniXAI, lines 162-185, to
\* that object, which is the one in the Map; the durable store keeps what
\* was saved. The response returned is pushed to job.results at line 101.
ProcessQuery(query, in) ==
  /\ scope = "explain"
  /\ Len(requests) < ExplainCalls
  /\ \E response \in {IF IsCached(cache, query) THEN getCachedResponse(cache, query)
                       ELSE ExplainedResponse(query, ServiceExplanation(in))} :
       \E returned \in {IF options.enableXAI
                         THEN [response EXCEPT !.xaiExplanation = convertToXAIExplanation(in)]
                         ELSE response} :
         /\ cache' = CacheSet(cache, returned)
         /\ storage' = IF IsCached(cache, query) THEN storage
                        ELSE SaveCache(CacheSet(cache, response))
         /\ requests' = Append(requests, returned)
  /\ UNCHANGED <<jobs, table, nJobs, isProcessing, runs, nRuns, options, now, scope,
                 callerList, config, hookCache>>

\* the explanation scope: queries are processed one after the other, with
\* and without the enhancement
InitExplain ==
  /\ InitManager
  /\ scope = "explain"
  /\ config \in [openaiApiKey : {TRUE}, enableXAI : BOOLEAN, cacheExpiry : {TtlHours}]
  /\ options \in [batchSize : {1}, retryFailedQueries : {FALSE}, maxRetries : {0},
                   enableXAI : BOOLEAN]

ExplainNext == \E query \in ExplainQueries, in \in ExplainInputs : ProcessQuery(query, in)

ExplainSpec == InitExplain /\ [][ExplainNext]_vars

Outcomes == {"fulfilled", "rejected"}

\* the largest chunk of any scope
MaxCalls == Max({MaxBatch, ScenarioBatch})

Next ==
  \/ Tick
  \/ \E queries \in QueryLists : CreateJob(queries)
  \/ \E j \in JobIds : ExecuteJob(j)
  \/ \E j \in JobIds : CancelJob(j)
  \/ \E j \in JobIds : DeleteJob(j)
  \/ \E j \in JobIds : ExportJobResults(j)
  \/ GetStatistics
  \/ \E j \in JobIds : CallerMutates(j)
  \/ \E r \in RunIds, i \in 1..MaxCalls, outcome \in Outcomes : CallSettles(r, i, outcome)
  \/ \E r \in RunIds : DelayElapsed(r)
  \/ \E r \in RunIds, outcome \in Outcomes : RetrySettles(r, outcome)
  \/ \E r \in RunIds : RetryDelayElapsed(r)
  \/ \E r \in RunIds : BackoffElapsed(r)

Init == InitJobs \/ InitRetry \/ InitRerun \/ InitScenario \/ InitDedupe

Spec == Init /\ [][Next]_vars

\* Every dispatched call is answered in the end and every timer fires: what
\* an activation of executeJob waits for does happen.
Resume(r) ==
  \/ \E i \in 1..MaxCalls, outcome \in Outcomes : CallSettles(r, i, outcome)
  \/ DelayElapsed(r)
  \/ \E outcome \in Outcomes : RetrySettles(r, outcome)
  \/ RetryDelayElapsed(r)
  \/ BackoffElapsed(r)

Fairness == \A r \in 1..RetryExecs : WF_vars(Resume(r))

\* the PrecomputeService on its own
ServiceNext ==
  \/ \E query \in ServiceQueries : PrecomputeResponseCalled(query)
  \/ \E c \in 1..ServiceCalls, outcome \in UpstreamOutcomes, synthesisThrows \in BOOLEAN :
       PrecomputeResponseSettles(c, outcome, synthesisThrows)
  \/ \E loadFails \in BOOLEAN : Reload(loadFails)
  \/ ClearCache
  \/ ClockAdvances

ServiceSpec == InitService /\ [][ServiceNext]_vars

\* the panel scope: jobs are created and started by the panel, which starts
\* a job only when it creates it; executeJob may be called again by a
\* caller that holds the manager
InitPanel ==
  /\ InitManager
  /\ scope = "panel"
  /\ config = PanelConfig
  /\ options = [batchSize |-> 1, retryFailedQueries |-> FALSE, maxRetries |-> 0]

PanelNext ==
  \/ \E queries \in QueryLists : HandleCreateJob(queries)
  \/ \E j \in JobIds : ExecuteJob(j)
  \/ \E j \in JobIds : CancelJob(j)
  \/ \E j \in JobIds : DeleteJob(j)
  \/ \E r \in RunIds, i \in 1..MaxCalls, outcome \in Outcomes : CallSettles(r, i, outcome)
  \/ \E r \in RunIds : DelayElapsed(r)

PanelSpec == InitPanel /\ [][PanelNext]_vars

\* the strings scope: one execution of one job whose queries may be empty or
\* hold a double quote, with a retry pass of one round
InitStrings ==
  /\ InitManager
  /\ scope = "strings"
  /\ config = PanelConfig
  /\ options \in {o \in OptionSet : o.retryFailedQueries /\ o.maxRetries = 1}

StringsNext ==
  \/ \E queries \in QueryLists : CreateJob(queries)
  \/ \E j \in JobIds : ExecuteJob(j)
  \/ \E r \in RunIds, i \in 1..MaxCalls, outcome \in Outcomes : CallSettles(r, i, outcome)
  \/ \E r \in RunIds : DelayElapsed(r)
  \/ \E r \in RunIds, outcome \in Outcomes : RetrySettles(r, outcome)
  \/ \E r \in RunIds : RetryDelayElapsed(r)

StringsSpec == InitStrings /\ [][StringsNext]_vars

\* ---------------------------------------------------------------- two instances
\* the shared scope: the manager of PrecomputePanel (PrecomputePanel.tsx
\* lines 49-56) and the manager of usePrecompute (lines 568-582 of the hook)
\* each hold a PrecomputeService of their own; both services use the slot
\* CACHE_KEY. Both are constructed while the slot is empty; the hook may
\* construct its manager again, and time passes.
InitShared ==
  /\ InitManager
  /\ scope = "shared"
  /\ config = PanelConfig
  /\ options = [batchSize |-> 1, retryFailedQueries |-> FALSE, maxRetries |-> 0]

\* precomputeResponse(query), lines 551-594, on the service of the panel's
\* manager: a hit returns the entry; on a miss the answer arrives, the
\* response is put in the Map and saveCache() writes the values of the Map
\* to the slot
PanelStores(query) ==
  /\ scope = "shared"
  /\ cache' = IF IsCached(cache, query) THEN cache
              ELSE CacheSet(cache, ServiceResponse(query, Answer, now))
  /\ storage' = IF IsCached(cache, query) THEN storage ELSE SaveCache(cache')
  /\ UNCHANGED <<jobs, table, nJobs, isProcessing, runs, nRuns, options, now, scope,
                 callerList, requests, config, hookCache>>

\* the same call on the service of the hook's manager
HookStores(query) ==
  /\ scope = "shared"
  /\ hookCache' = IF IsCached(hookCache, query) THEN hookCache
                  ELSE CacheSet(hookCache, ServiceResponse(query, Answer, now))
  /\ storage' = IF IsCached(hookCache, query) THEN storage ELSE SaveCache(hookCache')
  /\ UNCHANGED <<jobs, table, nJobs, isProcessing, runs, nRuns, cache, options, now, scope,
                 callerList, requests, config>>

\* usePrecompute.initialize, lines 568-582 of the hook: a new manager, whose
\* service runs loadCache() in its constructor
HookInitializes ==
  /\ scope = "shared"
  /\ hookCache' = IF storage.kind # "array" THEN [k \in {} |-> NoEntry] ELSE loadCache(now)
  /\ UNCHANGED <<jobs, table, nJobs, isProcessing, runs, nRuns, cache, options, now, scope,
                 callerList, storage, requests, config>>

SharedNext ==
  \/ \E query \in ServiceQueries : PanelStores(query)
  \/ \E query \in ServiceQueries : HookStores(query)
  \/ HookInitializes
  \/ ClockAdvances

SharedSpec == InitShared /\ [][SharedNext]_vars

LiveSpec == InitRetry /\ [][Next]_vars /\ Fairness

\* ---------------------------------------------------------------- properties
Active(r) == runs[r].pc \notin {"idle", "done"}

\* the step in which the executeJob activation r returns
Returns(r) == runs[r].pc # "done" /\ runs'[r].pc = "done"

Running == {j \in table : jobs[j].status = "running"}

\* C1: in every reachable state at most one job of the job table has status
\* 'running'.
SingleRunningJob == Cardinality(Running) <= 1

\* C2: executeJob(B) called while another job A of the table is 'running'
\* throws the conflict error (and then changes nothing and dispatches nothing:
\* ExecuteJobConflict leaves every variable unchanged); when no job is
\* 'running' any more, executeJob(B) is admitted.
ConflictWhileRunning ==
  /\ \A a \in table, b \in table :
       a # b /\ jobs[a].status = "running" => executeJobOutcome(b) = "conflict"
  /\ (\A a \in JobIds : jobs[a].status # "running") =>
       \A b \in table : executeJobOutcome(b) = "admitted"

\* C3: cancelJob(id) on a running job returns true, sets the status to
\* 'failed', sets endTime, appends exactly one cancellation marker to errors
\* and releases the lock, so that executeJob on any other job of the table is
\* admitted right afterwards.
CancelRunningReleases ==
  [][\A j \in JobIds :
       (j \in table /\ jobs[j].status = "running" /\ CancelJob(j)) =>
         /\ cancelJobReturns(j)
         /\ jobs'[j].status = "failed"
         /\ jobs'[j].endTime = now /\ jobs'[j].endTime # NoTime
         /\ jobs'[j].errors = Append(jobs[j].errors, Cancelled)
         /\ jobs'[j].results = jobs[j].results
         /\ ~isProcessing'
         /\ \A k \in table' \ {j} : (executeJobOutcome(k) = "admitted")']_vars

\* a job was cancelled in mid-run (its call is still in flight), the lock is
\* free and another job of the table can be started
CancelledMidRun ==
  \E j \in table, k \in table, r \in RunIds :
    /\ j # k
    /\ jobs[j].status = "failed"
    /\ jobs[j].endTime # NoTime
    /\ Len(jobs[j].errors) > 0
    /\ jobs[j].errors[Len(jobs[j].errors)] = Cancelled
    /\ runs[r].job = j /\ runs[r].pc = "chunk" /\ runs[r].cancelled
    /\ ~isProcessing
    /\ executeJobOutcome(k) = "admitted"

\* C4: once a job is 'completed' or 'failed', its results, errors and endTime
\* do not change while it stays in the table (in particular when calls that
\* were in flight at cancelJob settle).
TerminalJobImmutable ==
  [][\A j \in table \cap table' :
       jobs[j].status \in Terminal =>
         /\ jobs'[j].results = jobs[j].results
         /\ jobs'[j].errors = jobs[j].errors
         /\ jobs'[j].endTime = jobs[j].endTime]_vars

\* C5: the status of a job changes only along pending -> running,
\* running -> completed and running -> failed. (One step of the model is one
\* macrotask: an executeJob that never suspends goes pending -> running ->
\* completed within it, which is allowed here.)
StatusEdges ==
  { <<"pending", "running">>, <<"running", "completed">>, <<"running", "failed">>,
    <<"pending", "completed">> }

StatusFollowsEdges ==
  [][\A j \in JobIds :
       (jobs[j].status # "none" /\ jobs'[j].status # jobs[j].status) =>
         <<jobs[j].status, jobs'[j].status>> \in StatusEdges]_vars

\* ---- what an activation of executeJob did, read from its record
JobOf(r) == jobs[runs[r].job]

\* r is the first execution of its job
FirstExecution(r) == \A r2 \in RunIds : r2 < r => runs[r2].job # runs[r].job

Count(seq, S) == Cardinality({i \in 1..Len(seq) : seq[i] \in S})

\* C6: every admitted executeJob returns in the end, and when it returns the
\* job is 'completed' or 'failed' and the lock is released (batchSize >= 1,
\* every call settles).
ExecuteJobTerminates ==
  /\ \A r \in RunIds : Active(r) ~> (runs[r].pc = "done")
  /\ [][\A r \in RunIds :
          Returns(r) => (jobs'[runs'[r].job].status \in Terminal /\ ~isProcessing')]_vars

\* an executeJob that went through the chunk loop and a retry round has
\* returned
ReturnedAfterRetry ==
  \E r \in RunIds :
    /\ runs[r].pc = "done"
    /\ Len(runs[r].rounds) >= 1
    /\ JobOf(r).status \in Terminal
    /\ ~isProcessing

\* C7: when the chunk loop of an uncancelled first execution of a job has
\* finished, results.length + errors.length = queries.length (every query is
\* accounted for exactly once, rejected or not).
SettleAllAccounting ==
  \A r \in RunIds :
    (runs[r].loopEnd # <<>> /\ ~runs[r].cancelled /\ FirstExecution(r)) =>
      runs[r].loopEnd[1].results + runs[r].loopEnd[1].errors = Len(JobOf(r).queries)

\* every call of the chunk loop of r was rejected, and so was every retry
AllRejected(r) ==
  /\ runs[r].chunkRejected = 1..Len(JobOf(r).queries)
  /\ \A a \in 1..Len(runs[r].rounds) : \A i \in 1..Len(runs[r].rounds[a]) :
       runs[r].rounds[a][i] = "rejected"

OneErrorPerQuery(r) ==
  /\ JobOf(r).status = "completed"
  /\ JobOf(r).results = <<>>
  /\ JobOf(r).errors = [i \in 1..Len(JobOf(r).queries) |-> QueryError(JobOf(r).queries[i])]

\* C8: an executeJob (not cancelled) in which every query is rejected in the
\* chunk loop and in every retry round returns with status 'completed',
\* results empty and exactly one error entry per query.
RejectionsDoNotFailJob ==
  [][\A r \in RunIds :
       (Returns(r) /\ (AllRejected(r) /\ ~runs[r].cancelled)') => OneErrorPerQuery(r)']_vars

\* the retry pass of r ran all its maxRetries rounds and every retry of the
\* string q was rejected
FailedEveryRound(r, q) ==
  /\ Len(runs[r].rounds) = options.maxRetries
  /\ \A a \in 1..Len(runs[r].rounds) : \A i \in 1..Len(runs[r].rounds[a]) :
       runs[r].failedQueries[i] = q => runs[r].rounds[a][i] = "rejected"

\* some retry of the string q was fulfilled
SucceededOnRetry(r, q) ==
  \E a \in 1..Len(runs[r].rounds) : \E i \in 1..Len(runs[r].rounds[a]) :
    runs[r].failedQueries[i] = q /\ runs[r].rounds[a][i] = "fulfilled"

\* the positions of the query list whose call was rejected in the chunk loop
\* and that hold the string q
RejectedPositions(r, q) == {p \in runs[r].chunkRejected : JobOf(r).queries[p] = q}

\* the positions that hold q (up to case and surrounding blanks) and whose
\* call was fulfilled in the chunk loop
FulfilledPositions(r, q) ==
  {p \in (1..Len(JobOf(r).queries)) \ runs[r].chunkRejected :
     generateQueryHash(JobOf(r).queries[p]) = generateQueryHash(q)}

\* the entries of the retry list that are the string q and were fulfilled in
\* some round
RetriedWithSuccess(r, q) ==
  {i \in 1..Len(runs[r].failedQueries) :
     /\ runs[r].failedQueries[i] = q
     /\ \E a \in 1..Len(runs[r].rounds) :
          i <= Len(runs[r].rounds[a]) /\ runs[r].rounds[a][i] = "fulfilled"}

ResultsFor(r, q) ==
  {i \in 1..Len(JobOf(r).results) :
     JobOf(r).results[i].queryHash = generateQueryHash(q)}

\* the only execution of its job, never cancelled, with the retry pass on
PlainRetryRun(r) ==
  /\ runs[r].pc = "done"
  /\ ~runs[r].cancelled
  /\ options.retryFailedQueries
  /\ \A r2 \in RunIds \ {r} : runs[r2].job # runs[r].job

\* C9: with the retry pass on, a query that is rejected in the chunk loop and
\* in all maxRetries retry rounds is in job.errors exactly once when the job
\* has finished (once for each of its rejected positions in the query list).
PermanentFailureRecordedOnce ==
  \A r \in RunIds : PlainRetryRun(r) =>
    \A p \in runs[r].chunkRejected :
      LET q == JobOf(r).queries[p] IN
      FailedEveryRound(r, q) =>
        Count(JobOf(r).errors, {QueryError(q)}) = Cardinality(RejectedPositions(r, q))

\* C10: with the retry pass on, a query that is rejected in the chunk loop and
\* fulfilled on some retry round has exactly one record in job.results for
\* that retry (next to the records of the positions fulfilled in the chunk
\* loop) and no entry in job.errors when the job has finished.
RetrySuccessRecordedOnce ==
  \A r \in RunIds : PlainRetryRun(r) =>
    \A p \in runs[r].chunkRejected :
      LET q == JobOf(r).queries[p] IN
      SucceededOnRetry(r, q) =>
        /\ Cardinality(ResultsFor(r, q))
             = Cardinality(FulfilledPositions(r, q)) + Cardinality(RetriedWithSuccess(r, q))
        /\ Count(JobOf(r).errors, {QueryError(q)}) = 0

\* exactly one call of the chunk loop of r was rejected, and its first retry
\* was fulfilled
OneFailureRetriedOnce(r) ==
  /\ runs[r].pc = "done"
  /\ Cardinality(runs[r].chunkRejected) = 1
  /\ Len(runs[r].rounds) >= 1
  /\ runs[r].rounds[1] = <<"fulfilled">>

\* C11: if exactly one query of a job is rejected in the chunk loop and then
\* succeeds on its first retry, the job ends with status 'completed',
\* results.length = queries.length and errors empty.
OneRetryCompletes ==
  \A r \in RunIds : OneFailureRetriedOnce(r) =>
    /\ JobOf(r).status = "completed"
    /\ Len(JobOf(r).results) = Len(JobOf(r).queries)
    /\ JobOf(r).errors = <<>>

\* the precompute calls of job j that were dispatched and have not settled:
\* the pending calls of the chunks and the pending retries (position 0) of
\* its activations
InFlight(j) ==
  {<<r, i>> \in RunIds \X (0..MaxCalls) :
     /\ runs[r].job = j
     /\ \/ i = 0 /\ runs[r].pc = "retry"
        \/ i >= 1 /\ i <= Len(runs[r].calls) /\ runs[r].calls[i].state = "pending"}

\* activation r is in its retry pass
InRetryPass(r) == runs[r].pc \in {"retry", "retryDelay", "backoff"}

RetryOnlyAfterErrors(r) ==
  Len(runs[r].rounds) >= 1 =>
    /\ options.retryFailedQueries
    /\ runs[r].loopEnd # <<>>
    /\ runs[r].loopEnd[1].errors > 0

RoundsBounded(r) == Len(runs[r].rounds) <= options.maxRetries

\* every round but the last one had a retry that failed
StopsAfterCleanRound(r) ==
  \A a \in 1..(Len(runs[r].rounds) - 1) :
    \E i \in 1..Len(runs[r].rounds[a]) : runs[r].rounds[a][i] = "rejected"

OneRetryAtATime(r) == InRetryPass(r) => Cardinality(InFlight(runs[r].job)) <= 1

\* C12: the retry pass runs only if retryFailedQueries is true and job.errors
\* is non-empty after the chunk loop; it performs at most maxRetries rounds,
\* stops after the first round without a failed retry, and at any moment of
\* the retry pass at most one precompute call of the job is in flight.
RetryPassDiscipline ==
  \A r \in RunIds :
    /\ RetryOnlyAfterErrors(r)
    /\ RoundsBounded(r)
    /\ StopsAfterCleanRound(r)
    /\ OneRetryAtATime(r)

\* comparison of two progress values (fractions with positive denominators)
ProgressLeq(p, q) == p[1] * q[2] <= q[1] * p[2]

ProgressInRange(p) == ProgressLeq(<<0, 1>>, p) /\ ProgressLeq(p, <<100, 1>>)

\* C13: while a job is 'running' its progress never decreases from one state
\* to the next, and in every state 0 <= progress <= 100 (whatever the
\* sequence of createJob/executeJob/cancelJob calls, re-executions included).
ProgressMonotone ==
  /\ [](\A j \in JobIds : ProgressInRange(jobs[j].progress))
  /\ [][\A j \in JobIds :
          (jobs[j].status = "running" /\ jobs'[j].status = "running") =>
            ProgressLeq(jobs[j].progress, jobs'[j].progress)]_vars

ProgressEq(p, q) == p[1] * q[2] = q[1] * p[2]

\* the number of queries in the first k chunks of the job of r
QueriesInChunks(r, k) == Min(k * options.batchSize, Len(JobOf(r).queries))

\* the step in which the chunk loop of activation r ends
LoopEnds(r) == runs[r].loopEnd = <<>> /\ runs'[r].loopEnd # <<>>

\* C14: after chunk k has settled, progress = 100 * (number of queries in
\* chunks 1..k) / queries.length (seen while the activation waits for the
\* delay after chunk k), and progress is exactly 100 when the chunk loop has
\* ended, for every query list (the empty one included) and batchSize >= 1.
ProgressFollowsChunks ==
  /\ [](\A r \in RunIds : runs[r].pc = "delay" =>
          ProgressEq(JobOf(r).progress,
                     <<100 * QueriesInChunks(r, runs[r].batchIndex + 1),
                       Len(JobOf(r).queries)>>))
  /\ [][\A r \in RunIds :
          LoopEnds(r) => ProgressEq(jobs'[runs'[r].job].progress, <<100, 1>>)]_vars

RECURSIVE Flatten(_)
Flatten(seqs) == IF seqs = <<>> THEN <<>> ELSE Head(seqs) \o Flatten(Tail(seqs))

Ceiling(n, b) == (n + b - 1) \div b

\* the chunks of N queries for batch size B: ceil(N/B) of them, in order,
\* of B queries each but for the last, which has N mod B (B when B divides N)
PartitionOf(batches, queries, B) ==
  LET N == Len(queries) IN
  /\ Len(batches) = Ceiling(N, B)
  /\ Flatten(batches) = queries
  /\ \A k \in 1..(Len(batches) - 1) : Len(batches[k]) = B
  /\ Len(batches) > 0 =>
       Len(batches[Len(batches)]) = (IF N % B = 0 THEN B ELSE N % B)

\* C15: for N queries and batchSize B >= 1, executeJob partitions the queries
\* into exactly ceil(N/B) chunks whose concatenation is the query list in its
\* order; every chunk but the last has B queries, the last has N mod B (B when
\* N is a positive multiple of B).
ChunksPartitionQueries ==
  \A r \in RunIds : runs[r].pc # "idle" =>
    PartitionOf(BatchesOf(Machine, r), JobOf(r).queries, options.batchSize)

\* an executeJob works on a query list cut into several chunks, the last one
\* shorter than the others
ShortLastChunk ==
  \E r \in RunIds :
    /\ runs[r].pc = "chunk"
    /\ Len(BatchesOf(Machine, r)) >= 2
    /\ runs[r].batchIndex = Len(BatchesOf(Machine, r)) - 1
    /\ Len(CurrentBatch(Machine, r)) < options.batchSize

\* the calls of the current chunk of activation r that have not settled
Pending(r) == {i \in 1..Len(runs[r].calls) : runs[r].calls[i].state = "pending"}

\* the step in which activation r hands the calls of a chunk to processQuery
Dispatches(r) == runs[r].calls = <<>> /\ runs'[r].calls # <<>>

\* the step in which activation r leaves the chunk it was waiting for
LeavesChunk(r) ==
  /\ runs[r].pc = "chunk"
  /\ runs'[r].pc # "chunk" \/ runs'[r].batchIndex # runs[r].batchIndex

\* C16: the chunks of an executeJob are processed strictly sequentially: a
\* chunk is left only when its last outstanding call settles, the calls of
\* the next chunk are dispatched only when the delay after the chunk has
\* elapsed, and there is no delay after the last chunk.
ChunksSequential ==
  /\ [](\A r \in RunIds :
          runs[r].pc = "delay" =>
            Pending(r) = {} /\ runs[r].batchIndex < Len(BatchesOf(Machine, r)) - 1)
  /\ [][\A r \in RunIds :
          /\ LeavesChunk(r) => Cardinality(Pending(r)) <= 1
          /\ Dispatches(r) =>
               \/ runs[r].pc = "idle" /\ runs'[r].batchIndex = 0
               \/ runs[r].pc = "delay" /\ runs'[r].batchIndex = runs[r].batchIndex + 1]_vars

\* the calls of a second chunk are in flight
SecondChunkInFlight ==
  \E r \in RunIds :
    runs[r].pc = "chunk" /\ runs[r].batchIndex >= 1 /\ Cardinality(Pending(r)) >= 2

\* the positions of the chunk that activation r leaves in this step whose
\* call was rejected, and those whose call was fulfilled, in position order
RejectedInChunk(r) ==
  SelectSeq([i \in 1..Len(runs[r].calls) |-> i],
            LAMBDA i : runs[r].batchIndex * options.batchSize + i \in runs'[r].chunkRejected)

FulfilledInChunk(r) ==
  SelectSeq([i \in 1..Len(runs[r].calls) |-> i],
            LAMBDA i : runs[r].batchIndex * options.batchSize + i \notin runs'[r].chunkRejected)

\* nothing but the chunk has written to the job when the step is over: the
\* retry pass has not pushed or removed anything yet
OnlyChunkRecorded(r) ==
  \/ runs'[r].pc = "delay"
  \/ ~options.retryFailedQueries
  \/ runs'[r].pc = "retry" /\ runs'[r].attempt = 1 /\ runs'[r].idx = 1

\* C17: when the last call of a chunk settles, whatever the order in which
\* its calls settled, the results are appended to job.results in the order
\* of the positions of their queries in the chunk, and one error entry is
\* appended for each rejected call, in position order, naming the query at
\* the position of that call.
AttributionByIndex ==
  [][\A r \in RunIds :
       (LeavesChunk(r) /\ OnlyChunkRecorded(r)) =>
         LET j == runs[r].job
             batch == CurrentBatch(Machine, r)
             fulfilled == FulfilledInChunk(r)
             rejected == RejectedInChunk(r)
         IN /\ Len(jobs'[j].results) = Len(jobs[j].results) + Len(fulfilled)
            /\ \A k \in 1..Len(fulfilled) :
                 /\ jobs'[j].results[Len(jobs[j].results) + k].queryHash
                      = generateQueryHash(batch[fulfilled[k]])
                 /\ jobs'[j].results[Len(jobs[j].results) + k].originalQuery
                      = batch[fulfilled[k]]
            /\ jobs'[j].errors
                 = jobs[j].errors \o [k \in 1..Len(rejected) |-> QueryError(batch[rejected[k]])]
            /\ SubSeq(jobs'[j].results, 1, Len(jobs[j].results)) = jobs[j].results]_vars

\* the second call of a chunk was rejected before the first call, for a
\* different query, has settled
SettledOutOfOrder ==
  \E r \in RunIds :
    /\ runs[r].pc = "chunk"
    /\ Len(runs[r].calls) >= 2
    /\ runs[r].calls[1].state = "pending"
    /\ runs[r].calls[2].state = "rejected"
    /\ CurrentBatch(Machine, r)[1] # CurrentBatch(Machine, r)[2]

\* job j is in the chunk loop of one of its executeJob activations
InChunkLoop(j) ==
  \E r \in RunIds : runs[r].job = j /\ runs[r].pc \in {"chunk", "delay"}

\* C18: at every moment of a job's chunk loop, the number of the precompute
\* calls of that job that were dispatched and have not settled yet is at
\* most batchSize.
InFlightBounded ==
  \A j \in JobIds : InChunkLoop(j) => Cardinality(InFlight(j)) <= options.batchSize

\* the step in which createJob allocates job j
Creates(j) == nJobs' = nJobs + 1 /\ j = nJobs'

\* C19: createJob(queries) adds exactly one new job to the table, with
\* status 'pending', progress 0, empty results and errors and the queries of
\* its argument; it leaves the lock, the executeJob activations with their
\* calls and all other jobs as they were; and job.queries never changes
\* afterwards, whatever the caller does to the array it passed.
CreateJobFrame ==
  [][\A j \in JobIds :
       /\ Creates(j) =>
            /\ j \notin table
            /\ table' = table \cup {j}
            /\ jobs'[j].status = "pending"
            /\ ProgressEq(jobs'[j].progress, <<0, 1>>)
            /\ jobs'[j].results = <<>>
            /\ jobs'[j].errors = <<>>
            /\ jobs'[j].queries = callerList'[j]
            /\ \A k \in JobIds \ {j} : jobs'[k] = jobs[k]
            /\ isProcessing' = isProcessing
            /\ runs' = runs
            /\ cache' = cache
       /\ j <= nJobs => jobs'[j].queries = jobs[j].queries]_vars

\* a job has run to its end and is in the table with the queries it was
\* created with, although the caller has changed the array it passed
CallerListChanged ==
  \E j \in table :
    /\ jobs[j].status = "completed"
    /\ jobs[j].queries # <<>>
    /\ callerList[j] # jobs[j].queries

\* the ids that are not in the job table
UnknownIds == JobIds \ table

\* C20: executeJob and exportJobResults called with an id that is not in
\* the job table fail with the not-found error, for executeJob also while
\* the lock is held (the not-found test comes before the conflict test), and
\* such a call changes nothing: no lock, no status, no dispatched call.
UnknownIdNotFound ==
  /\ [](\A j \in UnknownIds :
          /\ executeJobOutcome(j) = "notFound"
          /\ exportJobResultsOutcome(j) = "notFound")
  /\ [][\A j \in UnknownIds :
          ExecuteJob(j) \/ ExportJobResults(j) => UNCHANGED vars]_vars

\* the lock is held and the id of a deleted job is not in the table any more
UnknownIdWhileLocked ==
  /\ isProcessing
  /\ \E j \in UnknownIds : j <= nJobs

\* job j is not a running job of the table: it is pending, completed or
\* failed, or its id is unknown
NotRunning(j) == j \notin table \/ jobs[j].status # "running"

\* C21: cancelJob(id) on a job that is not 'running' (pending, completed,
\* failed, or an unknown id) returns false and changes nothing: status,
\* errors and endTime of every job and the lock keep their values.
CancelNotRunningNoOp ==
  /\ [](\A j \in JobIds : NotRunning(j) => ~cancelJobReturns(j))
  /\ [][\A j \in JobIds : NotRunning(j) /\ CancelJob(j) => UNCHANGED vars]_vars

\* a running job holds the lock while the table has another job that is
\* pending or has ended
LockHeldBesideEndedJob ==
  /\ isProcessing
  /\ \E a \in table, b \in table :
       /\ jobs[a].status = "running"
       /\ jobs[b].status \in {"pending", "completed", "failed"}

\* C22: deleteJob(id) can be called for a job of the table whatever its
\* status and removes exactly that id: afterwards getJob(id) is undefined,
\* the job is not in getAllJobs and getStatistics is the rollup of the
\* remaining jobs; it returns true exactly when the id was in the table; the
\* jobs themselves, the lock and the executeJob activations are untouched.
DeleteJobFrame ==
  /\ [](\A j \in JobIds : deleteJobReturns(j) <=> j \in table)
  /\ [](\A j \in table : ENABLED DeleteJob(j))
  /\ [][\A j \in table :
          DeleteJob(j) =>
            /\ table' = table \ {j}
            /\ getJob(j)' = NoJob
            /\ \A i \in 1..Len(getAllJobs') : getAllJobs'[i] # j
            /\ getAllJobs' = SelectSeq(getAllJobs, LAMBDA k : k # j)
            /\ getStatistics' = StatisticsOf(table \ {j})
            /\ \A k \in JobIds : jobs'[k] = jobs[k]
            /\ \A k \in table \ {j} : getJob(k)' = getJob(k)
            /\ isProcessing' = isProcessing
            /\ runs' = runs]_vars

\* a job was deleted while it was running, beside another job of the table
DeletedWhileRunning ==
  \E j \in JobIds \ table :
    /\ j <= nJobs
    /\ jobs[j].status = "running"
    /\ isProcessing
    /\ table # {}

\* the question a query asks: its text without the letter case and the
\* surrounding blanks
Question(query) == trim(toLowerCase(query))

\* the queries for which the step sends a request to the completion API:
\* the calls of a newly dispatched chunk that are left waiting, and a retry
\* that is left waiting
ChunkSent(r) ==
  IF Dispatches(r) THEN {CurrentBatch(Machine, r)'[i] : i \in Pending(r)'} ELSE {}

RetrySent(r) ==
  IF /\ runs'[r].pc = "retry"
     /\ \/ runs[r].pc # "retry"
        \/ runs[r].idx # runs'[r].idx
        \/ runs[r].attempt # runs'[r].attempt
  THEN {runs'[r].failedQueries[runs'[r].idx]}
  ELSE {}

SentUpstream(r) == ChunkSent(r) \cup RetrySent(r)

\* C23: a cache hit issues no upstream call, returns the stored entry and
\* writes neither the cache nor the durable store; hence no request is sent
\* for a query whose question, in any spelling, was precomputed successfully
\* for a job of the same engine.
HitSendsNothing ==
  /\ [](\A j \in JobIds : \A k \in 1..Len(jobs[j].results) :
          jobs[j].results[k].queryHash \in DOMAIN cache)
  /\ [][\A r \in RunIds :
          /\ \A query \in SentUpstream(r) : Question(query) \notin DOMAIN cache'
          /\ Dispatches(r) =>
               /\ cache' = cache
               /\ storage' = storage
               /\ \A i \in 1..Len(runs'[r].calls) :
                    runs'[r].calls[i].state = "fulfilled" =>
                      runs'[r].calls[i].value = cache[Question(CurrentBatch(Machine, r)'[i])]]_vars

\* a later job has completed with the entry that an earlier job stored for
\* another spelling of its query (the entry of an earlier session, if there
\* was one, has the spelling "x")
AnsweredFromOtherSpelling ==
  \E a \in JobIds, b \in JobIds :
    /\ a < b
    /\ Len(jobs[a].results) = 1
    /\ jobs[b].status = "completed"
    /\ Len(jobs[b].results) = 1
    /\ jobs[b].queries # jobs[a].queries
    /\ jobs[b].results[1].originalQuery = jobs[a].queries[1]
    /\ jobs[a].queries[1] # <<"x">>

\* the step in which the direct call c returns a response it has just built
Stores(c) ==
  /\ c \in 1..Len(requests)
  /\ requests[c].state = "pending"
  /\ Len(requests') = Len(requests)
  /\ requests'[c].state = "returned"

\* the step stores an entry for key k
StoresKey(k) == \E c \in 1..ServiceCalls : Stores(c) /\ requests'[c].value.queryHash = k

\* the entry e is within its TTL after the step
Fresh(e) == now' - e.timestamp < maxAge

\* the step in which a new PrecomputeService is constructed
Reloads == Reload(TRUE) \/ Reload(FALSE)

\* the entries of the cache, and of the durable store, have distinct keys,
\* and a call that stores an entry leaves it as the entry of its key
OneEntryPerKey ==
  /\ [](\A k \in DOMAIN cache : cache[k].queryHash = k)
  /\ [](\A e1 \in storage.items, e2 \in storage.items :
          e1.queryHash = e2.queryHash => e1 = e2)
  /\ [][\A c \in 1..ServiceCalls :
          Stores(c) =>
            /\ requests'[c].value.queryHash = Question(requests[c].query)
            /\ cache'[Question(requests[c].query)] = requests'[c].value]_vars

Spellings == UNION { [1..n -> {"x", "X", " "}] : n \in 0..SpellingLen }

\* a query trimmed and then put in lower case
Normalized(query) == toLowerCase(trim(query))

\* C25: two queries that are equal after lower-casing and trimming have the
\* same cache key, so that a lookup with any spelling of a stored query finds
\* exactly the entry stored for it, and precomputeResponse called with such
\* a spelling returns that entry.
EqualNormalizedSameKey ==
  /\ [](\A k \in DOMAIN cache, q2 \in Spellings :
          Normalized(cache[k].originalQuery) = Normalized(q2) =>
            /\ generateQueryHash(q2) = generateQueryHash(cache[k].originalQuery)
            /\ IsCached(cache, q2)
            /\ getCachedResponse(cache, q2) = cache[k])
  /\ [][\A k \in DOMAIN cache :
          (/\ Len(requests') = Len(requests) + 1
           /\ Normalized(requests'[Len(requests')].query) = Normalized(cache[k].originalQuery)) =>
            /\ requests'[Len(requests')].state = "returned"
            /\ requests'[Len(requests')].value = cache[k]]_vars

\* a call has returned the entry that was stored for another spelling of
\* its query
HitForOtherSpelling ==
  \E c \in 1..Len(requests) :
    /\ requests[c].state = "returned"
    /\ ~requests[c].upstream
    /\ requests[c].value.originalQuery # requests[c].query

\* the entry e is older than the TTL
Expired(e) == now - e.timestamp >= maxAge

\* a newly constructed service holds no entry that is older than the TTL
LoadDropsExpired ==
  [][Reloads => \A k \in DOMAIN cache' : ~Expired(cache[k])']_vars

\* C26: an entry older than the TTL is absent to lookup: the load from the
\* durable store drops it, and no lookup (getCachedResponse, or the hit of
\* precomputeResponse) ever returns an entry older than the TTL.
ExpiredEntriesAbsent ==
  /\ LoadDropsExpired
  /\ [](\A query \in ServiceQueries :
          IsCached(cache, query) => ~Expired(getCachedResponse(cache, query)))
  /\ [][(/\ Len(requests') = Len(requests) + 1
          /\ requests'[Len(requests')].state = "returned") =>
           ~Expired(requests'[Len(requests')].value)]_vars

\* the step in which the direct call c fails
Throws(c) ==
  /\ c \in 1..Len(requests)
  /\ requests[c].state = "pending"
  /\ Len(requests') = Len(requests)
  /\ requests'[c].state = "threw"

\* C27: precomputeResponse fails when the completion call fails and when
\* the synthesis of the explanation throws, and a call that fails leaves the
\* cache and the durable store as they were: no entry of its query exists
\* afterwards unless it existed before.
FailureWritesNothing ==
  /\ [](/\ PrecomputeThrows("rejected", FALSE)
         /\ config.enableXAI => PrecomputeThrows("content", TRUE))
  /\ [][\A c \in 1..ServiceCalls :
          Throws(c) =>
            /\ cache' = cache
            /\ storage' = storage
            /\ requests'[c].value = NoEntry]_vars

\* a call has failed and there is no entry for its query
FailedWithoutEntry ==
  \E c \in 1..Len(requests) :
    /\ requests[c].state = "threw"
    /\ ~IsCached(cache, requests[c].query)
    /\ \A e \in storage.items : e.queryHash # generateQueryHash(requests[c].query)

\* the write of the durable store that the step attempted has failed: the
\* slot does not hold the values of the cache
SaveFailed == storage' = storage /\ storage' # SaveCache(cache')

\* C28: a failure of the durable store never fails the caller. When the
\* write after a fulfilled request fails, the call is still fulfilled: the
\* new entry is in the cache for later lookups and the job records it as a
\* result and records no error, also when the service could not load the
\* durable store at its construction.
StoreFailureSwallowed ==
  /\ [][\A r \in RunIds, i \in 1..MaxCalls :
          (SaveFailed /\ CallSettles(r, i, "fulfilled")) =>
            LET j == runs[r].job
                query == CurrentBatch(Machine, r)[i]
            IN /\ IsCached(cache', query)
               /\ getCachedResponse(cache', query).originalQuery = query
               /\ jobs'[j].results = Append(jobs[j].results, getCachedResponse(cache', query))
               /\ jobs'[j].errors = jobs[j].errors]_vars

\* the durable store holds an entry that the service did not load and did
\* not replace: the load has failed, the write of the new entry has failed,
\* and the job has completed with the new entry as its result
CompletedDespiteStore ==
  \E j \in table :
    /\ storage.kind = "array"
    /\ \E k \in DOMAIN cache :
         /\ \E e \in storage.items : e.queryHash = k /\ e # cache[k]
         /\ jobs[j].results = <<cache[k]>>
    /\ jobs[j].status = "completed"
    /\ jobs[j].errors = <<>>

\* C29: when no credential is configured, a precompute call fails with a
\* configuration error at call time: no request of such a service is ever
\* sent to the completion API, every call has failed, and nothing is in
\* the cache or in the durable store.
NoCredentialFailsAtCall ==
  ~config.openaiApiKey =>
    /\ \A c \in 1..Len(requests) :
         /\ ~requests[c].upstream
         /\ requests[c].state = "threw"
    /\ DOMAIN cache = {}
    /\ storage.items = {}

\* C30: an upstream response of unexpected shape makes the call fail, and
\* no entry with an empty answer text is in the cache, in the durable store
\* or returned to a caller (who adds what is returned to job.results).
NoEmptyAnswerStored ==
  /\ \A k \in DOMAIN cache : cache[k].openaiResponse # <<>>
  /\ \A e \in storage.items : e.openaiResponse # <<>>
  /\ \A c \in 1..Len(requests) :
       requests[c].state = "returned" => requests[c].value.openaiResponse # <<>>

\* the jobs of the table that have an endTime
Ended == {j \in table : jobs[j].endTime # NoTime}

\* the sum of endTime - startTime over the jobs of Ended, counted unit by unit
TotalProcessingTime ==
  Cardinality({<<j, t>> \in Ended \X (1..MaxTime) :
                 t <= jobs[j].endTime - jobs[j].startTime})
    - Cardinality({<<j, t>> \in Ended \X (1..MaxTime) :
                     t <= jobs[j].startTime - jobs[j].endTime})

\* the longest list of results of a job
MostResults == Max({Len(jobs[j].results) : j \in JobIds})

\* the longest list of queries of a job
MostQueries == Max({Len(jobs[j].queries) : j \in JobIds})

\* C31: getStatistics is a rollup of the live job table: totalJobs is the
\* number of jobs in the table, completedJobs and failedJobs the numbers of
\* jobs with that status, totalQueries the sum of queries.length,
\* successfulQueries the sum of results.length, averageProcessingTime the
\* mean of endTime - startTime over the jobs that have an endTime (0 when
\* there is none). The figures are those of the table as it is at the call,
\* and the call changes no job, so that a second call right after it
\* returns the same figures.
StatisticsAreRollup ==
  /\ [](/\ getStatistics.totalJobs = Cardinality(table)
         /\ getStatistics.completedJobs =
              Cardinality({j \in table : jobs[j].status = "completed"})
         /\ getStatistics.failedJobs =
              Cardinality({j \in table : jobs[j].status = "failed"})
         /\ getStatistics.totalQueries =
              Cardinality({<<j, i>> \in table \X (1..MostQueries) :
                             i <= Len(jobs[j].queries)})
         /\ getStatistics.successfulQueries =
              Cardinality({<<j, i>> \in table \X (1..MostResults) :
                             i <= Len(jobs[j].results)})
         /\ getStatistics.averageProcessingTime =
              IF Ended = {} THEN <<0, 1>>
              ELSE <<TotalProcessingTime, Cardinality(Ended)>>)
  /\ [][GetStatistics =>
         /\ jobs' = jobs /\ table' = table
         /\ \A j \in table : getJob(j)' = getJob(j)]_vars

\* a job was deleted, and the statistics are those of the job that is left,
\* which has completed with a result after some time
DeletedJobNotCounted ==
  /\ nJobs = 2
  /\ getStatistics.totalJobs = 1
  /\ getStatistics.completedJobs = 1
  /\ getStatistics.failedJobs = 0
  /\ getStatistics.totalQueries = 1
  /\ getStatistics.successfulQueries = 1
  /\ getStatistics.averageProcessingTime = <<1, 1>>

\* C32: the document exported for a completed job has the results of the
\* job (same length, same content) and its errors, and its totalQueries is
\* the length of the list that was passed to createJob: it is that length
\* when the job is created and never changes while the job is in the table.
\* Exporting changes nothing.
ExportMatchesJob ==
  /\ [](\A j \in table :
          jobs[j].status = "completed" =>
            /\ exportData(j).results = jobs[j].results
            /\ Len(exportData(j).results) = Len(jobs[j].results)
            /\ exportData(j).job.successfulResults = Len(jobs[j].results)
            /\ exportData(j).errors = jobs[j].errors
            /\ exportData(j).job.id = j)
  /\ [][\A j \in JobIds :
          /\ Creates(j) => exportData(j)'.job.totalQueries = Len(callerList'[j])
          /\ j \in table \cap table' =>
               exportData(j)'.job.totalQueries = exportData(j).job.totalQueries
          /\ ExportJobResults(j) => jobs' = jobs /\ table' = table]_vars

\* a completed job with a result and an error whose caller has since emptied
\* the list it had passed: the document still counts the queries of the job
CompletedJobExported ==
  \E j \in table :
    /\ jobs[j].status = "completed"
    /\ Len(exportData(j).results) = 1
    /\ Len(exportData(j).errors) = 1
    /\ callerList[j] = <<>>
    /\ exportData(j).job.totalQueries = 2

\* C33: every explanation delivered in a job's results, with or without the
\* enhancement, has at most 8 features, at most 6 nodes in its concept
\* graph with every edge joining two of them, at most 4 suggested prompts
\* and a confidence from 0 to 95.
ExplanationWithinBounds ==
  \A c \in 1..Len(requests) :
    LET e == requests[c].xaiExplanation IN
    /\ e.features <= 8
    /\ Cardinality(e.dag.nodes) <= 6
    /\ \A edge \in e.dag.edges : edge[1] \in e.dag.nodes /\ edge[2] \in e.dag.nodes
    /\ e.suggestedPrompts <= 4
    /\ e.confidence \in 0..95

\* C34: after cancelJob(id) has returned, the activation of executeJob that
\* was running the job dispatches no further precompute call for it: it
\* starts no later chunk and issues no retry.
NoDispatchAfterCancel ==
  [][\A r \in RunIds :
       runs[r].cancelled => ~Dispatches(r) /\ RetrySent(r) = {}]_vars

\* activation r is running a job that was deleted while it was 'running'
RunsDeletedJob(r) ==
  Active(r) /\ runs[r].job \notin table /\ jobs[runs[r].job].status = "running"

\* C35: deleting a job that is 'running' neither stops its execution nor
\* releases the lock: the step leaves the jobs, the activations and the lock
\* as they are; until the executeJob call of the deleted job returns,
\* executeJob on every job of the table fails with the conflict error,
\* although no job of the table is 'running'; and the lock is free when
\* that call has returned.
DeletedRunningHoldsLock ==
  /\ [][\A j \in table :
          (jobs[j].status = "running" /\ DeleteJob(j)) =>
            jobs' = jobs /\ runs' = runs /\ isProcessing' = isProcessing]_vars
  /\ [](\A r \in RunIds :
          RunsDeletedJob(r) =>
            /\ isProcessing
            /\ \A k \in table : executeJobOutcome(k) = "conflict")
  /\ [][\A r \in RunIds :
          (RunsDeletedJob(r) /\ Returns(r)) => ~isProcessing']_vars

\* the panel creates a job while the lock is held
CreatedWhileLocked == isProcessing /\ \E queries \in QueryLists : HandleCreateJob(queries)

\* C36: a job whose executeJob call is rejected at admission is not queued.
\* The job that the panel creates while the lock is held stays 'pending' and
\* no activation is started for it; a 'pending' job has progress 0 and no
\* results and no errors; a rejected call changes nothing; and a 'pending'
\* job changes only in a step that is an admitted executeJob call for it, so
\* that nothing starts it when the running job finishes.
RejectedJobNotQueued ==
  /\ [](\A j \in JobIds :
          jobs[j].status = "pending" =>
            /\ jobs[j].progress = <<0, 1>>
            /\ jobs[j].results = <<>>
            /\ jobs[j].errors = <<>>
            /\ \A r \in RunIds : runs[r].job # j)
  /\ [][CreatedWhileLocked =>
          /\ jobs'[nJobs'].status = "pending"
          /\ runs' = runs /\ nRuns' = nRuns /\ isProcessing' = isProcessing
          /\ \A j \in 1..nJobs : jobs'[j] = jobs[j]]_vars
  /\ [][\A j \in JobIds :
          /\ ExecuteJobConflict(j) => jobs' = jobs /\ runs' = runs
          /\ (jobs[j].status = "pending" /\ jobs'[j] # jobs[j]) =>
               ExecuteJobAdmitted(j)]_vars

\* the job that the panel created while the first job was running is still
\* 'pending' after the first job has completed and the lock is free
StillPendingAfterFinish ==
  /\ scope = "panel"
  /\ nJobs = 2 /\ table = {1, 2}
  /\ jobs[1].status = "completed"
  /\ jobs[2].status = "pending"
  /\ ~isProcessing
  /\ nRuns = 1

\* how often the string q occurs in the sequence seq
Occurrences(seq, q) == Cardinality({i \in 1..Len(seq) : seq[i] = q})

\* the strings that are queries of a job or are retried by an activation
StringsInPlay ==
  {jobs[j].queries[i] : <<j, i>> \in
     {<<j, i>> \in JobIds \X (1..MaxQueries) : i <= Len(jobs[j].queries)}}
    \cup {runs[r].failedQueries[i] : <<r, i>> \in
             {<<r, i>> \in RunIds \X (1..MaxQueries) : i <= Len(runs[r].failedQueries)}}

\* C37: the retry pass retries exactly the queries whose calls were rejected
\* in the chunk loop: once the loop of an execution with the retry pass on
\* has ended, every string is in the list of the queries to retry as often
\* as it is the query of a rejected call, whatever the string is.
RetriesExactlyTheRejected ==
  \A r \in RunIds :
    (runs[r].loopEnd # <<>> /\ options.retryFailedQueries) =>
      \A q \in StringsInPlay :
        Occurrences(runs[r].failedQueries, q) = Cardinality(RejectedPositions(r, q))

\* C38: in every reachable state every job has at most as many results as
\* queries, so that the successfulQueries of getStatistics never exceed its
\* totalQueries and the success rate shown from them never exceeds 100%.
ResultsWithinQueries ==
  /\ \A j \in JobIds : Len(jobs[j].results) <= Len(jobs[j].queries)
  /\ getStatistics.successfulQueries <= getStatistics.totalQueries

\* the step processes a query that is cached
HitOf(query) ==
  /\ IsCached(cache, query)
  /\ Len(requests') = Len(requests) + 1
  /\ requests'[Len(requests')].queryHash = generateQueryHash(query)

\* C39: a cache entry is never modified after it has been written. What
\* the Map holds for a key when the write has been done is what was saved
\* to the durable store; the entry stays as it is in every later step; and
\* a hit returns it, with the explanation that it had when it was saved,
\* also when executeJob processes the query with enableXAI.
CacheEntryNeverModified ==
  [][/\ \A k \in DOMAIN cache' \ DOMAIN cache :
          \A e \in storage'.items : e.queryHash = k => e = cache'[k]
     /\ \A k \in DOMAIN cache : k \in DOMAIN cache' /\ cache'[k] = cache[k]
     /\ \A query \in ExplainQueries :
          HitOf(query) =>
            requests'[Len(requests')].xaiExplanation
              = getCachedResponse(cache, query).xaiExplanation]_vars

\* the entries of a Map
Entries(c) == {c[k] : k \in DOMAIN c}

\* the slot holds an entry for the key of e
KeptInSlot(e) == \E e2 \in storage'.items : e2.queryHash = e.queryHash

\* C40: when the service of the panel's manager and the service of the
\* hook's manager share the slot, a store by one of them never removes from
\* the slot an unexpired entry that the other one persisted.
StoreKeepsPeerEntries ==
  [][/\ (\E query \in ServiceQueries : PanelStores(query)) =>
          \A e \in storage.items \cap Entries(hookCache) :
            now - e.timestamp < maxAge => KeptInSlot(e)
     /\ (\E query \in ServiceQueries : HookStores(query)) =>
          \A e \in storage.items \cap Entries(cache) :
            now - e.timestamp < maxAge => KeptInSlot(e)]_vars

====
